---------------------------- MODULE Spec2Model ----------------------------
(***************************************************************************)
(* A model of HumanCursor: the system cursor (system_cursor.py) driving    *)
(* the pyautogui sink, and the web executor (web_adjuster.py) driving a    *)
(* selenium action chain.                                                  *)
(*                                                                         *)
(* Times are rationals in milliseconds, written <<numerator, denominator>> *)
(* in lowest terms.  Random draws of the code (trajectory points, Fitts    *)
(* duration, click pauses) are nondeterministic choices of the actions.    *)
(***************************************************************************)
EXTENDS Integers, Sequences, FiniteSets, TLC

(***************************************************************************)
(* Bounds of the exploration.                                              *)
(***************************************************************************)
\* longest caller-supplied trajectory (human_curve.points)
MaxCurveLen == 2
\* most recorded movements of a session explored by Spec
MaxMoves == 2
\* most recorded movements of a session explored by SpecSession
MaxSession == 7
\* largest clicks argument that is tried
MaxClicks == 2
\* most interior points of a web trajectory
MaxWebMid == 2
\* longest web move per axis, in pixels
MaxWebSpan == 3
\* the most points a direct construction of a trajectory asks for
MaxDirectPoints == 12
\* the largest n binomial is called with
MaxBinomialN == 20
\* the largest n of the keys that are cached side by side
MaxSmallN == 3

(***************************************************************************)
(* Program constants.                                                      *)
(***************************************************************************)
\* _CursorContext.record_movement keeps the last 5 target sizes
RingSize == 5
\* CLICK_PAUSE_MIN, CLICK_PAUSE_MAX in ms
CLICK_PAUSE_MIN == 170
CLICK_PAUSE_MAX == 280
\* random.uniform(0.05, 0.15) before the first click, in ms
PreClickMin == 50
PreClickMax == 150
\* the clamp of _calculate_movement_duration, in ms
DurationFloor == 150
DurationCeil == 3000
\* default target_size of move_to
DefaultTargetSize == 12
\* STEADY_OFFSET_BOUNDARY, in pixels
STEADY_OFFSET_BOUNDARY == 10
\* STEADY_DISTORTION_MEAN, STEADY_DISTORTION_STDEV, STEADY_DISTORTION_FREQ, in thousandths
STEADY_DISTORTION_MEAN == 1200
STEADY_DISTORTION_STDEV == 1200
STEADY_DISTORTION_FREQ == 1000
\* the cap of the parameter selector on target_points
TargetPointsCap == 250

(***************************************************************************)
(* Rationals.                                                              *)
(***************************************************************************)
RECURSIVE GCD(_, _)
GCD(a, b) == IF b = 0 THEN a ELSE GCD(b, a % b)

Frac(n, d) == LET g == GCD(n, d) IN IF n = 0 THEN <<0, 1>> ELSE <<n \div g, d \div g>>
Ms(n) == <<n, 1>>
\* q / k for a rational q and an integer k > 0
FracDiv(q, k) == Frac(q[1], q[2] * k)
\* lo <= q <= hi for integers lo, hi
FracIn(q, lo, hi) == lo * q[2] <= q[1] /\ q[1] <= hi * q[2]

Min(a, b) == IF a < b THEN a ELSE b
Max(a, b) == IF a > b THEN a ELSE b
FracMin(p, q) == IF p[1] * q[2] <= q[1] * p[2] THEN p ELSE q
FracMax(p, q) == IF p[1] * q[2] >= q[1] * p[2] THEN p ELSE q
\* int() of n / d for d > 0: towards zero
TruncDiv(n, d) == IF n >= 0 THEN n \div d ELSE -((-n) \div d)
\* the least integer not below n / d, for n >= 0 and d > 0
CeilDiv(n, d) == (n + d - 1) \div d

RECURSIVE SqrtBetween(_, _, _)
SqrtBetween(n, lo, hi) ==
    IF lo >= hi THEN lo
    ELSE LET mid == (lo + hi + 1) \div 2
         IN IF mid * mid <= n THEN SqrtBetween(n, mid, hi) ELSE SqrtBetween(n, lo, mid - 1)
\* the whole part of the square root
ISqrt(n) == SqrtBetween(n, 0, 46340)

\* math.sqrt of the squared offsets; the moves explored have whole distances
Distance(p, q) ==
    ISqrt((p[1] - q[1]) * (p[1] - q[1]) + (p[2] - q[2]) * (p[2] - q[2]))

\* log2 of a power of two
RECURSIVE Log2(_)
Log2(n) == IF n <= 1 THEN 0 ELSE 1 + Log2(n \div 2)

(***************************************************************************)
(* Python values that reach the argument checks.                           *)
(***************************************************************************)
PyNum(v) == [v |-> v, num |-> TRUE, int |-> TRUE]
\* a float that is no integer, of value v + 1/2
PyFloat(v) == [v |-> v, num |-> TRUE, int |-> FALSE]
PyStr == [v |-> 0, num |-> FALSE, int |-> FALSE]
PySeq(cs) == [seq |-> TRUE, c |-> cs]
PyOther == [seq |-> FALSE, c |-> <<>>]
Pt(x, y) == PySeq(<<PyNum(x), PyNum(y)>>)
\* the coordinates of a valid point
XY(point) == <<point.c[1].v, point.c[2].v>>

\* screen points that are tried
Points == {<<3, 1>>, <<2, 4>>}
ValidPoints == {Pt(p[1], p[2]) : p \in Points}
\* no list or tuple; a tuple of three numbers; a pair with a string in it
InvalidPoints ==
    { PyOther,
      PySeq(<<PyNum(3), PyNum(1), PyNum(2)>>),
      PySeq(<<PyNum(3), PyStr>>) }
AnyPoints == ValidPoints \cup InvalidPoints
TargetSizes == {12, 60}

\* the isinstance / len checks at the head of move_to
IsSeq(point) == point.seq
ValidPoint(point) ==
    /\ point.seq
    /\ Len(point.c) = 2
    /\ \A i \in 1..Len(point.c) : point.c[i].num
ValidClicks(clicks) == clicks.num /\ clicks.int /\ clicks.v >= 1
ValidClickDuration(cd) == cd.num /\ cd.v >= 0

(***************************************************************************)
(* Events the code emits to the sink, and the sleeps it takes.             *)
(***************************************************************************)
EvMove(p) == [p |-> p, e |-> "move", t |-> <<0, 1>>]
EvPress == [p |-> <<0, 0>>, e |-> "press", t |-> <<0, 1>>]
EvRelease == [p |-> <<0, 0>>, e |-> "release", t |-> <<0, 1>>]
EvSleep(q) == [p |-> <<0, 0>>, e |-> "sleep", t |-> q]

Moves(pts) == [i \in 1..Len(pts) |-> EvMove(pts[i])]

RECURSIVE SeqsUpTo(_, _)
\* all sequences over S of length at most n
SeqsUpTo(S, n) ==
    IF n = 0 THEN {<<>>}
    ELSE LET R == SeqsUpTo(S, n - 1)
         IN R \cup {Append(r, s) : r \in {q \in R : Len(q) = n - 1}, s \in S}

VARIABLES
    sinkPos,      \* pyautogui.position()
    sinkDown,     \* the left button is held
    sinkCfg,      \* pyautogui.MINIMUM_DURATION, MINIMUM_SLEEP, PAUSE
    phase,        \* "unborn", "live", "cleaned": the SystemCursor instance
    original,     \* _original_min_duration, _original_min_sleep, _original_pause
    ctx,          \* _CursorContext: movement_count, recent_targets
    log,          \* events of the call in progress or last made
    lastCall,     \* the last call made, its arguments and outcome
    hist,         \* target sizes of all duration computations, in order
    preCfg,       \* sinkCfg just before construction
    origin_coordinate,  \* WebAdjuster.origin_coordinate, in pixels
    webCall,      \* the last WebAdjuster.move_to: where it started, what it emitted
    origin_coordinates,  \* WebCursor.origin_coordinates, in pixels
    traj,         \* the last trajectory asked for: its inputs, then what was built
    binomial_cache,  \* BezierCalculator._binomial_cache
    binCall,      \* the last call of BezierCalculator.binomial and what it returned
    hcs,          \* the recorder window: coordinates, index, ctrl_pressed, ...
    threads,      \* where the key listener thread and the Tk thread stand
    started,      \* what started each item of hcs.coordinates, in order
    playback_running,  \* AllInOneHCS.playback_running
    workers       \* the playback worker threads started so far, each with its locals

sysVars == <<sinkPos, sinkDown, sinkCfg, phase, original, ctx, log, lastCall, hist, preCfg>>
webVars == <<origin_coordinate, webCall, origin_coordinates>>
curveVars == <<traj, binomial_cache, binCall>>
recVars == <<hcs, threads, started>>
playVars == <<playback_running, workers>>
nonSysVars == <<webVars, curveVars, recVars, playVars>>
nonWebVars == <<sysVars, curveVars, recVars, playVars>>
nonRecVars == <<sysVars, webVars, curveVars, playVars>>
vars == <<sinkPos, sinkDown, sinkCfg, phase, original, ctx, log, lastCall, hist, preCfg,
          origin_coordinate, webCall, origin_coordinates, traj, binomial_cache, binCall, hcs, threads, started,
          playback_running, workers>>

NoCall ==
    [a |-> PyOther, b |-> PyOther, n |-> PyNum(0), op |-> "none", hold |-> PyNum(0),
     auto |-> FALSE, given |-> FALSE, curve |-> <<>>, ok |-> TRUE, factor |-> 0]

(***************************************************************************)
(* _CursorContext                                                          *)
(***************************************************************************)
NewContext == [movement_count |-> 0, recent_targets |-> <<>>]

\* record_movement that never drops the oldest size
record_movement_unbounded(c, target_size) ==
    [movement_count |-> c.movement_count + 1,
     recent_targets |-> Append(c.recent_targets, target_size)]

record_movement(c, target_size) ==
    LET a == Append(c.recent_targets, target_size)
    IN [movement_count |-> c.movement_count + 1,
        recent_targets |-> IF Len(a) > RingSize THEN Tail(a) ELSE a]

RECURSIVE SumSeq(_)
SumSeq(q) == IF q = <<>> THEN 0 ELSE Head(q) + SumSeq(Tail(q))

\* get_repetition_factor, in percent.  With n sizes of sum S the mean is S/n
\* and the variance sum((s - S/n)^2)/n = sum((n*s - S)^2)/n^3.
get_repetition_factor(c) ==
    IF c.movement_count < 3 THEN 100
    ELSE IF Len(c.recent_targets) < 3 THEN 100
    ELSE LET n == Len(c.recent_targets)
             S == SumSeq(c.recent_targets)
             sq == SumSeq([i \in 1..n |-> (n * c.recent_targets[i] - S) * (n * c.recent_targets[i] - S)])
         IN IF sq < 100 * n * n * n THEN 85
            ELSE IF sq < 500 * n * n * n THEN 92
            ELSE 100

(***************************************************************************)
(* SystemCursor, as functions of the state record                          *)
(*   s = [pos, down, pause, ctx, hist, log, ok, factor]                    *)
(* ok = FALSE once an exception has been raised; the rest of the state is  *)
(* what the code had done by then.  factor is the repetition factor of the *)
(* last duration computation of the call, 0 when there was none.           *)
(***************************************************************************)
Raise(s) == [s EXCEPT !.ok = FALSE]

\* _calculate_movement_duration that records the movement before it reads
\* the repetition factor
CalculateMovementDurationLate(s, target_size) ==
    [s EXCEPT !.factor = get_repetition_factor(record_movement(s.ctx, target_size)),
              !.ctx = record_movement(s.ctx, target_size),
              !.hist = Append(s.hist, target_size)]

\* _calculate_movement_duration: the factors are read, the Fitts duration is
\* drawn by the caller from the clamp range, then the context records the
\* movement.
CalculateMovementDuration(s, target_size) ==
    [s EXCEPT !.factor = get_repetition_factor(s.ctx),
              !.ctx = record_movement(s.ctx, target_size),
              !.hist = Append(s.hist, target_size)]

\* _execute_curve_movement without the closing moveTo(final_point)
ExecuteCurveMovementNoFinal(s, pts, final_point, duration) ==
    IF Len(pts) = 0 THEN Raise(s)
    ELSE [s EXCEPT !.pause = FracDiv(duration, Len(pts)),
                   !.log = s.log \o Moves(pts),
                   !.pos = pts[Len(pts)]]

\* _execute_curve_movement
ExecuteCurveMovement(s, pts, final_point, duration) ==
    IF Len(pts) = 0 THEN Raise(s)
    ELSE [s EXCEPT !.pause = FracDiv(duration, Len(pts)),
                   !.log = s.log \o Moves(pts) \o <<EvMove(XY(final_point))>>,
                   !.pos = XY(final_point)]

\* the trajectory HumanizeMouseTrajectory builds: from_point, the interior
\* points it drew, to_point
GeneratedCurve(from_point, to_point, mids) == <<from_point>> \o mids \o <<XY(to_point)>>

\* move_to that records the movement before it checks the point
MoveToLateCheck(s, point, duration, human_curve, target_size, mids, autoDur) ==
    LET s1 == IF duration.none THEN CalculateMovementDuration(s, target_size) ELSE s
    IN IF ~ValidPoint(point) THEN Raise(s1)
       ELSE LET pts == IF human_curve.none
                       THEN GeneratedCurve(s.pos, point, mids)
                       ELSE human_curve.v
                d == IF duration.none THEN autoDur ELSE duration.v
            IN ExecuteCurveMovement(s1, pts, point, d)

\* move_to(point, duration, human_curve, target_size); duration and
\* human_curve are records [none, v]; mids and autoDur are the random draws
MoveTo(s, point, duration, human_curve, target_size, mids, autoDur) ==
    IF ~ValidPoint(point) THEN Raise(s)
    ELSE LET from_point == s.pos
             pts == IF human_curve.none
                    THEN GeneratedCurve(from_point, point, mids)
                    ELSE human_curve.v
             s1 == IF duration.none THEN CalculateMovementDuration(s, target_size) ELSE s
             d == IF duration.none THEN autoDur ELSE duration.v
         IN ExecuteCurveMovement(s1, pts, point, d)

mouseDown(s) == [s EXCEPT !.down = TRUE, !.log = Append(s.log, EvPress)]
mouseUp(s) == [s EXCEPT !.down = FALSE, !.log = Append(s.log, EvRelease)]
Sleep(s, q) == [s EXCEPT !.log = Append(s.log, EvSleep(q))]

RECURSIVE ClickLoopHeld(_, _, _, _)
\* a click loop that presses again before it has released
ClickLoopHeld(s, n, click_duration, pauses) ==
    IF n = 0 THEN s
    ELSE IF n = 1
         THEN Sleep(mouseUp(Sleep(mouseDown(s), Ms(click_duration.v))), Ms(Head(pauses)))
         ELSE ClickLoopHeld(Sleep(Sleep(mouseDown(s), Ms(click_duration.v)), Ms(Head(pauses))),
                            n - 1, click_duration, Tail(pauses))

RECURSIVE ClickLoop(_, _, _, _)
\* the for loop of click_on; pauses[i] is the i-th inter-click draw
ClickLoop(s, n, click_duration, pauses) ==
    IF n = 0 THEN s
    ELSE ClickLoop(Sleep(mouseUp(Sleep(mouseDown(s), Ms(click_duration.v))), Ms(Head(pauses))),
                   n - 1, click_duration, Tail(pauses))

\* optional arguments: a duration, a human_curve
None == [v |-> <<0, 1>>, none |-> TRUE]
Some(v) == [v |-> v, none |-> FALSE]
NoCurve == [v |-> <<>>, none |-> TRUE]

\* click_on(point, clicks, click_duration, target_size)
ClickOn(s, point, clicks, click_duration, target_size, mids, autoDur, pre, pauses) ==
    IF ~ValidClicks(clicks) THEN Raise(s)
    ELSE IF ~ValidClickDuration(click_duration) THEN Raise(s)
    ELSE LET s1 == MoveTo(s, point, None, NoCurve, target_size, mids, autoDur)
         IN IF ~s1.ok THEN s1
            ELSE ClickLoop(Sleep(s1, Ms(pre)), clicks.v, click_duration, pauses)

\* the split of drag_and_drop's duration argument, [kind, a, b]
FirstDuration(duration) ==
    IF duration.kind = "pair" THEN Some(duration.a)
    ELSE IF duration.kind = "num" THEN Some(FracDiv(duration.a, 2))
    ELSE None
SecondDuration(duration) ==
    IF duration.kind = "pair" THEN Some(duration.b)
    ELSE IF duration.kind = "num" THEN Some(FracDiv(duration.a, 2))
    ELSE None

\* a drag that presses before it has moved to the source
DragAndDropEarlyPress(s, from_point, to_point, duration, mids1, mids2, auto1, auto2) ==
    IF ~IsSeq(from_point) THEN Raise(s)
    ELSE IF ~IsSeq(to_point) THEN Raise(s)
    ELSE LET s1 == MoveTo(mouseDown(s), from_point, FirstDuration(duration), NoCurve,
                          DefaultTargetSize, mids1, auto1)
         IN IF ~s1.ok THEN s1
            ELSE LET s2 == MoveTo(s1, to_point, SecondDuration(duration), NoCurve,
                                  DefaultTargetSize, mids2, auto2)
                 IN IF ~s2.ok THEN s2 ELSE mouseUp(s2)

\* drag_and_drop(from_point, to_point, duration)
DragAndDrop(s, from_point, to_point, duration, mids1, mids2, auto1, auto2) ==
    IF ~IsSeq(from_point) THEN Raise(s)
    ELSE IF ~IsSeq(to_point) THEN Raise(s)
    ELSE LET s1 == MoveTo(s, from_point, FirstDuration(duration), NoCurve,
                          DefaultTargetSize, mids1, auto1)
         IN IF ~s1.ok THEN s1
            ELSE LET s2 == MoveTo(mouseDown(s1), to_point, SecondDuration(duration), NoCurve,
                                  DefaultTargetSize, mids2, auto2)
                 IN IF ~s2.ok THEN s2 ELSE mouseUp(s2)

\* the loop of idle_jitter: moveTo(current + offset, duration=interval), then
\* sleep(interval), once for each offset drawn
RECURSIVE JitterLoop(_, _, _)
JitterLoop(s, offsets, interval) ==
    IF offsets = <<>> THEN s
    ELSE LET new == <<s.pos[1] + Head(offsets)[1], s.pos[2] + Head(offsets)[2]>>
         IN JitterLoop([s EXCEPT !.log = s.log \o <<EvMove(new), EvSleep(interval)>>,
                                 !.pos = new],
                       Tail(offsets), interval)

\* int(duration * 10), the duration in ms
JitterIterations(duration) == (duration * 10) \div 1000

\* idle_jitter(duration, intensity): duration in ms, intensity in tenths.
\* units[i] in {-1, 0, 1}^2 says where in [-max_offset, max_offset] the i-th
\* draw of each axis falls: at an end or in the middle.  duration / iterations
\* raises ZeroDivisionError when iterations is 0.
IdleJitter(s, duration, intensity, units) ==
    IF ~duration.num \/ duration.v <= 0 THEN Raise(s)
    ELSE IF ~intensity.num \/ intensity.v <= 0 THEN Raise(s)
    ELSE LET clamped == Max(5, Min(intensity.v, 20))
             iterations == JitterIterations(duration.v)
             max_offset == (3 * clamped) \div 10
         IN IF iterations = 0 THEN Raise(s)
            ELSE JitterLoop(s,
                            [i \in 1..iterations |->
                               <<units[i][1] * max_offset, units[i][2] * max_offset>>],
                            Frac(duration.v, iterations))

(***************************************************************************)
(* Python floats.  A float is written as an integer count of 2^-FracBits;  *)
(* every result is rounded to the nearest float of MantBits significant    *)
(* bits, ties to even, as IEEE 754 arithmetic does (binary64 has 53).      *)
(***************************************************************************)
FracBits == 3
MantBits == 4

RECURSIVE Pow2(_)
Pow2(n) == IF n = 0 THEN 1 ELSE 2 * Pow2(n - 1)
Unit == Pow2(FracBits)
Abs(v) == IF v < 0 THEN -v ELSE v

RECURSIVE Quantum(_, _)
\* the spacing of the floats around magnitude a
Quantum(a, q) == IF a < Pow2(MantBits) * q THEN q ELSE Quantum(a, 2 * q)

RoundFloat(v) ==
    LET a == Abs(v)
        q == Quantum(a, 1)
        r == a % q
        lo == a - r
        up == IF 2 * r > q \/ (2 * r = q /\ (lo \div q) % 2 = 1) THEN lo + q ELSE lo
    IN IF v < 0 THEN -up ELSE up

FAdd(a, b) == RoundFloat(a + b)
FSub(a, b) == RoundFloat(a - b)
\* int(x): truncation toward zero, a number of pixels
IntOf(v) == IF v < 0 THEN -((-v) \div Unit) ELSE v \div Unit
\* an int taken into float arithmetic
FromInt(n) == RoundFloat(n * Unit)
\* x - int(x)
FracPart(v) == FSub(v, FromInt(IntOf(v)))

(***************************************************************************)
(* WebAdjuster                                                             *)
(***************************************************************************)
\* no origin list handed in by the caller
NoOrigin == [v |-> <<0, 0>>, none |-> TRUE]

NoWebCall == [given |-> NoOrigin, ok |-> TRUE, kind |-> "position", made |-> FALSE,
              origin |-> <<0, 0>>, points |-> <<>>, total |-> <<0, 0>>, emitted |-> <<>>,
              calls |-> <<>>, performs |-> <<"ok", "ok">>, via |-> "adjuster",
              centre |-> <<0, 0>>, after |-> NoOrigin]

\* one round of the loop of _execute_movement; w = [origin, acc, total, emitted]
\* with origin and acc floats, total and the emitted offsets in pixels
MovementStep(w, point) ==
    LET x_offset == FSub(point[1], w.origin[1])
        y_offset == FSub(point[2], w.origin[2])
        ax == FAdd(w.acc[1], FracPart(x_offset))
        ay == FAdd(w.acc[2], FracPart(y_offset))
        bx == Abs(ax) > Unit
        by == Abs(ay) > Unit
        fx == IF bx THEN IntOf(ax) ELSE 0
        fy == IF by THEN IntOf(ay) ELSE 0
        flushed == IF bx \/ by THEN <<(<<fx, fy>>)>> ELSE <<>>
    IN [origin |-> point,
        total |-> <<w.total[1] + fx + IntOf(x_offset), w.total[2] + fy + IntOf(y_offset)>>,
        emitted |-> w.emitted \o flushed \o <<(<<IntOf(x_offset), IntOf(y_offset)>>)>>,
        acc |-> <<IF bx THEN FracPart(ax) ELSE ax, IF by THEN FracPart(ay) ELSE ay>>]

RECURSIVE MovementLoop(_, _)
MovementLoop(w, points) ==
    IF points = <<>> THEN w ELSE MovementLoop(MovementStep(w, Head(points)), Tail(points))

\* _execute_movement(human_curve, origin): the offsets queued on the action
\* chain and the total it returns
ExecuteMovement(points, origin) ==
    LET w == MovementLoop([origin |-> origin, total |-> <<0, 0>>, emitted |-> <<>>,
                           acc |-> <<0, 0>>], points)
    IN [total |-> <<w.total[1] + IntOf(w.acc[1]), w.total[2] + IntOf(w.acc[2])>>,
        emitted |-> Append(w.emitted, <<IntOf(w.acc[1]), IntOf(w.acc[2])>>)]

\* a pixel position as a point of floats
AsFloat(p) == <<FromInt(p[1]), FromInt(p[2])>>

\* a point of floats that lies on a whole pixel, as that pixel
Pixel(p) == <<IntOf(p[1]), IntOf(p[2])>>

\* a fallback that does not look at what the target is
PerformQueuedAnyTarget(kind, performs) ==
    IF performs[1] = "ok" THEN [ok |-> TRUE, calls |-> <<"perform">>]
    ELSE IF performs[1] # "out_of_bounds" THEN [ok |-> FALSE, calls |-> <<"perform">>]
    ELSE [ok |-> performs[2] = "ok", calls |-> <<"perform", "move_to_element", "perform">>]

\* the end of _execute_movement: perform() in a try that catches
\* MoveTargetOutOfBoundsException only, then for a WebElement target
\* move_to_element and a second perform() outside any try, for any other
\* target a re-raise.  kind is "element" or "position"; performs are the
\* outcomes the driver gives the first and the second perform().  The result:
\* the calls made on the action chain after the offsets, and whether the
\* method returns (ok) or an exception reaches the caller.
PerformQueued(kind, performs) ==
    IF performs[1] = "ok" THEN [ok |-> TRUE, calls |-> <<"perform">>]
    ELSE IF performs[1] # "out_of_bounds" THEN [ok |-> FALSE, calls |-> <<"perform">>]
    ELSE IF kind = "element"
         THEN [ok |-> performs[2] = "ok", calls |-> <<"perform", "move_to_element", "perform">>]
         ELSE [ok |-> FALSE, calls |-> <<"perform">>]

\* WebAdjuster.move_to(element_or_pos, origin_coordinates=origin,
\* human_curve=...) to the destination _calculate_destination gives for the
\* target.  A curve that is supplied is followed as it is; otherwise the
\* trajectory runs from the origin through the interior points drawn to the
\* destination.  moved is where the loop, which writes every point into the
\* origin list it was given, leaves that list (the points drawn end on a
\* whole pixel); result is the list the method returns and stores.
Trajectory(origin, destination, human_curve, mids) ==
    IF human_curve.none
    THEN <<AsFloat(origin)>> \o mids \o <<AsFloat(destination)>>
    ELSE human_curve.v

\* the rest of the method, given the trajectory and what _execute_movement
\* made of it
AdjusterMoveTo(origin, kind, points, r, performs) ==
    LET p == PerformQueued(kind, performs)
    IN [ok |-> p.ok, kind |-> kind, made |-> TRUE, origin |-> origin, points |-> points,
        total |-> r.total, emitted |-> r.emitted, calls |-> p.calls, performs |-> performs,
        moved |-> IF points = <<>> THEN origin ELSE Pixel(points[Len(points)]),
        result |-> <<origin[1] + r.total[1], origin[2] + r.total[2]>>]

\* what webCall keeps of a call
WebCallOf(m, via, centre, given, after) ==
    [given |-> given, ok |-> m.ok, kind |-> m.kind, made |-> TRUE, origin |-> m.origin,
     points |-> m.points, total |-> m.total, emitted |-> m.emitted, calls |-> m.calls,
     performs |-> m.performs, via |-> via, centre |-> centre, after |-> after]

\* WebAdjuster.move_to called with no origin: the list followed and written
\* is the tracked origin itself, so when an exception leaves the method the
\* tracked origin stays on the last point followed; when the method returns
\* the tracked origin is reassigned.  An element's centre is taken to be the
\* destination.
web_move(kind, destination, human_curve, mids, performs) ==
    \E points \in {Trajectory(origin_coordinate, destination, human_curve, mids)} :
    \E r \in {ExecuteMovement(points, AsFloat(origin_coordinate))} :
    \E m \in {AdjusterMoveTo(origin_coordinate, kind, points, r, performs)} :
         /\ origin_coordinate' = IF m.ok THEN m.result ELSE m.moved
         /\ webCall' = WebCallOf(m, "adjuster", destination, NoOrigin, NoOrigin)
         /\ UNCHANGED <<origin_coordinates, nonWebVars>>

\* a call that raises before the adjuster is reached
RefusedWebCall(kind, given) ==
    [NoWebCall EXCEPT !.ok = FALSE, !.made = TRUE, !.kind = kind, !.via = "cursor",
                      !.origin = origin_coordinates, !.given = given, !.after = given]

\* WebCursor.move_to(element, relative_position, origin_coordinates=given):
\* the checks of relative_position, scroll_into_view_of_element (a TypeError
\* for a target that is neither an element nor a list), then
\* self.origin_coordinates = self.human.move_to(element, origin_coordinates=...)
\* with the caller's list or the cursor's own.  centre is the centre of the
\* element, destination the point of it that was drawn.
cursor_move_to(kind, destination, centre, relative_ok, given, mids, performs) ==
    IF ~relative_ok \/ kind \notin {"element", "position"}
    THEN /\ webCall' = RefusedWebCall(kind, given)
         /\ UNCHANGED <<origin_coordinate, origin_coordinates, nonWebVars>>
    ELSE \E origin \in {IF given.none THEN origin_coordinates ELSE given.v} :
         \E points \in {Trajectory(origin, destination, NoCurve, mids)} :
         \E r \in {ExecuteMovement(points, AsFloat(origin))} :
         \E m \in {AdjusterMoveTo(origin, kind, points, r, performs)} :
           /\ origin_coordinate' = IF m.ok THEN m.result ELSE origin_coordinate
           /\ origin_coordinates' = IF m.ok THEN m.result
                                    ELSE IF given.none THEN m.moved
                                    ELSE origin_coordinates
           /\ webCall' = WebCallOf(m, "cursor", centre, given,
                                   IF given.none THEN given ELSE Some(m.moved))
           /\ UNCHANGED nonWebVars

\* WebCursor.move_by_offset(x, y):
\* self.origin_coordinates = self.human.move_to([x, y], absolute_offset=True)
cursor_move_by_offset(offset, mids, performs) ==
    \E points \in {Trajectory(origin_coordinate,
                                <<origin_coordinate[1] + offset[1],
                                  origin_coordinate[2] + offset[2]>>, NoCurve, mids)} :
    \E r \in {ExecuteMovement(points, AsFloat(origin_coordinate))} :
    \E m \in {AdjusterMoveTo(origin_coordinate, "position", points, r, performs)} :
         /\ origin_coordinate' = IF m.ok THEN m.result ELSE m.moved
         /\ origin_coordinates' = IF m.ok THEN m.result ELSE origin_coordinates
         /\ webCall' = WebCallOf(m, "offset", m.result, NoOrigin, NoOrigin)
         /\ UNCHANGED nonWebVars

\* WebAdjuster.move_to([x, y]) with no curve supplied, on a page where
\* perform() succeeds
web_move_to(destination, mids) ==
    web_move("position", destination, NoCurve, mids, <<"ok", "ok">>)

(***************************************************************************)
(* BezierCalculator.                                                       *)
(***************************************************************************)
NoCache == [key \in {} |-> 0]
NoBinCall == [n |-> 0, k |-> 0, made |-> FALSE, value |-> 0, fresh |-> 0, hit |-> FALSE]

\* a loop that divides before it multiplies
RECURSIVE BinomialLoopDivFirst(_, _, _, _)
BinomialLoopDivFirst(result, n, k, i) ==
    IF i >= k THEN result
    ELSE BinomialLoopDivFirst(result * ((n - i) \div (i + 1)), n, k, i + 1)

\* the loop of binomial: result = result * (n - i) // (i + 1) for i in range(k)
RECURSIVE BinomialLoop(_, _, _, _)
BinomialLoop(result, n, k, i) ==
    IF i >= k THEN result
    ELSE BinomialLoop((result * (n - i)) \div (i + 1), n, k, i + 1)

\* BezierCalculator.binomial with the cache as it stands: the value returned
\* and the cache left behind
binomial(cache, n, k) ==
    IF k > n THEN [value |-> 0, cache |-> cache]
    ELSE IF k = 0 \/ k = n THEN [value |-> 1, cache |-> cache]
    ELSE IF <<n, k>> \in DOMAIN cache THEN [value |-> cache[<<n, k>>], cache |-> cache]
    ELSE LET result == BinomialLoop(1, n, Min(k, n - k), 0)
         IN [value |-> result,
             cache |-> [key \in DOMAIN cache \cup {<<n, k>>} |->
                          IF key = <<n, k>> THEN result ELSE cache[key]]]

\* the coefficients bernstein_polynomial precomputes for n + 1 control points:
\* binomial(n, i) for i = 0 .. n, leaving the cache behind
RECURSIVE PrecomputeBinomials(_, _, _)
PrecomputeBinomials(cache, n, i) ==
    IF i > n THEN cache
    ELSE PrecomputeBinomials(binomial(cache, n, i).cache, n, i + 1)

(***************************************************************************)
(* HumanizeMouseTrajectory.  A point of the trajectory is named by the     *)
(* place it has among the samples of the distorted Bezier curve: 0 is the  *)
(* origin and the last place is the destination, both kept exact by        *)
(* distort_points; the overshoot point has a name of its own.              *)
(***************************************************************************)
OvershootPoint == -1

\* kwargs.get(key, default)
Get(kwargs, key, default) == IF key \in DOMAIN kwargs THEN kwargs[key] ELSE default

\* list.insert(at, x), at counted from 0
InsertAt(points, at, x) ==
    LET i == Min(at, Len(points))
    IN SubSeq(points, 1, i) \o <<x>> \o SubSeq(points, i + 1, Len(points))

\* int(boundary * (1 + u)) with u = w / 100
Wobble(boundary, w) == TruncDiv(boundary * (100 + w), 100)

\* one coordinate of the knots: np.full(count, lo) where the wobbled bounds
\* meet, else np.random.choice(range(lo, hi), size=count), which raises on an
\* empty range unless no sample is asked for; pick says which end was drawn
KnotsAxis(lo, hi, knots_count, pick) ==
    IF lo = hi THEN [seq |-> [i \in 1..knots_count |-> lo], ok |-> TRUE]
    ELSE IF lo > hi /\ knots_count > 0 THEN [seq |-> <<>>, ok |-> FALSE]
    ELSE [seq |-> [i \in 1..knots_count |-> IF pick = "lo" THEN lo ELSE hi - 1],
          ok |-> TRUE]

\* generate_internal_knots; g.wobble holds the four variations in percent
generate_internal_knots(l_boundary, r_boundary, d_boundary, u_boundary, knots_count, g) ==
    LET count == IF knots_count < 0 THEN 0 ELSE knots_count
        l == Wobble(l_boundary, g.wobble[1])
        r == Wobble(r_boundary, g.wobble[2])
        d == Wobble(d_boundary, g.wobble[3])
        u == Wobble(u_boundary, g.wobble[4])
        knotsX == KnotsAxis(l, r, count, g.pickX)
        knotsY == KnotsAxis(d, u, count, g.pickY)
    IN IF l_boundary > r_boundary \/ d_boundary > u_boundary \/ ~knotsX.ok \/ ~knotsY.ok
       THEN [ok |-> FALSE, knots |-> <<>>, box |-> <<l, r, d, u>>]
       ELSE [ok |-> TRUE,
             knots |-> [i \in 1..count |-> <<knotsX.seq[i], knotsY.seq[i]>>],
             box |-> <<l, r, d, u>>]

\* midPtsCnt of generate_points: how many samples of the curve there are
MidPtsCnt(from_point, to_point) ==
    Max(Max(Abs(from_point[1] - to_point[1]), Abs(from_point[2] - to_point[2])), 2)

\* the easings explored, on a progress n / d: the value as a fraction
Ease(tween, n, d) ==
    IF tween = "linear" THEN <<n, d>>
    ELSE IF tween = "easeOutCubic" THEN <<d * d * d - (d - n) * (d - n) * (d - n), d * d * d>>
    ELSE <<n * (2 * d - n), d * d>>

\* the place among the m + 1 samples that tween_points takes for its i-th
\* point: int(adjusted_progress * m).  The directional exponents 0.95 and
\* 1.05 leave progress 0 and 1 where they are; between them the progress is
\* taken as it is.  The first three points are scaled by (i / 3) ** 3, and
\* only a point that is not among them gets the smoothing of the end.
TweenIndex(i, target_points, m, tween) ==
    LET a == Ease(tween, i, target_points - 1)
        remaining == target_points - 1 - i
    IN IF i < 3 THEN (a[1] * i * i * i * m) \div (a[2] * 27)
       ELSE IF i > target_points - 4
       THEN m - CeilDiv(remaining * remaining * remaining * (a[2] - a[1]) * m, 27 * a[2])
       ELSE (a[1] * m) \div a[2]

\* tween_points on count samples: target_points places
tween_points(count, tween, target_points) ==
    [j \in 1..target_points |-> TweenIndex(j - 1, target_points, count - 1, tween)]

\* overshoot_prob of add_overshoot_correction, a rational:
\* min(0.4, (min(distance / 1000, 1.0) + max(0, (50 - target_size) / 50)) / 2)
overshoot_prob(distance, target_size) ==
    LET distance_factor == FracMin(Frac(distance, 1000), <<1, 1>>)
        target_factor == IF target_size >= 50 THEN <<0, 1>> ELSE Frac(50 - target_size, 50)
    IN FracMin(<<2, 5>>,
               Frac(distance_factor[1] * target_factor[2] + target_factor[1] * distance_factor[2],
                    2 * distance_factor[2] * target_factor[2]))

\* an overshoot that takes the place of a point
OvershootOverwrites(points, distance, target_size, g) ==
    IF g.over /\ (distance > 0 \/ target_size < 50)
    THEN [points EXCEPT ![Min((Len(points) * g.inj) \div 100 + 1, Len(points))] = OvershootPoint]
    ELSE points

\* add_overshoot_correction; g.over says random.random() fell below the
\* probability, which it can only where the probability is not 0; g.inj is the
\* place drawn in percent of the length
add_overshoot_correction(points, distance, target_size, g) ==
    IF g.over /\ (distance > 0 \/ target_size < 50)
    THEN InsertAt(points, (Len(points) * g.inj) \div 100, OvershootPoint)
    ELSE points

\* a loop that forgets how far the earlier pauses have shifted the points
RECURSIVE PauseLoopNoShift(_, _, _, _)
PauseLoopNoShift(points, pause_indices, lengths, offset) ==
    IF pause_indices = <<>> THEN points
    ELSE LET idx == Head(pause_indices)
             pause_length == Head(lengths)
             pause_point == points[idx + 1]
             copies == [i \in 1..pause_length |-> pause_point]
         IN PauseLoopNoShift(SubSeq(points, 1, idx) \o copies
                               \o SubSeq(points, idx + 1, Len(points)),
                             Tail(pause_indices), Tail(lengths), offset)

\* the loop of add_pause_patterns over the sorted indices left to do
RECURSIVE PauseLoop(_, _, _, _)
PauseLoop(points, pause_indices, lengths, offset) ==
    IF pause_indices = <<>> THEN points
    ELSE LET idx == Head(pause_indices)
             pause_length == Head(lengths)
             pause_point == points[idx + offset + 1]
             copies == [i \in 1..pause_length |-> pause_point]
         IN PauseLoop(SubSeq(points, 1, idx + offset) \o copies
                        \o SubSeq(points, idx + offset + 1, Len(points)),
                      Tail(pause_indices), Tail(lengths), offset + pause_length)

\* the index a draw stands for: from safe_start upwards or from safe_end downwards
PauseIndex(pick, safe_start, safe_end) ==
    IF pick >= 0 THEN safe_start + pick ELSE safe_end + pick

\* add_pause_patterns; g.pauses holds, per pause and in the order of their
\* indices, the index drawn and the pause length
add_pause_patterns(points, distance, g) ==
    IF distance < 300 \/ Len(points) < 10 THEN points
    ELSE IF Len(g.pauses) = 0 THEN points
    ELSE LET safe_start == Len(points) \div 10
             safe_end == (Len(points) * 8) \div 10
         IN IF safe_end <= safe_start THEN points
            ELSE PauseLoop(points,
                           [i \in 1..Len(g.pauses) |->
                              PauseIndex(g.pauses[i][1], safe_start, safe_end)],
                           [i \in 1..Len(g.pauses) |-> g.pauses[i][2]], 0)

\* how many pauses random.choice can ask for at this distance
PauseCounts(distance) == IF distance < 500 THEN {0, 1} ELSE {1, 2}

\* the constructor raised: no trajectory
FailedCurve(cache, used) ==
    [ok |-> FALSE, points |-> <<>>, cache |-> cache, used |-> used,
     tweened |-> 0, entering |-> 0]

\* HumanizeMouseTrajectory(from_point, to_point, **kwargs): generate_curve
generate_curve(from_point, to_point, kwargs, cache, g) ==
    LET offset_boundary_x == Get(kwargs, "offset_boundary_x", 80)
        offset_boundary_y == Get(kwargs, "offset_boundary_y", 80)
        left_boundary == Min(from_point[1], to_point[1]) - offset_boundary_x
        right_boundary == Max(from_point[1], to_point[1]) + offset_boundary_x
        down_boundary == Min(from_point[2], to_point[2]) - offset_boundary_y
        up_boundary == Max(from_point[2], to_point[2]) + offset_boundary_y
        knots_count == Get(kwargs, "knots_count", 2)
        distortion_mean == Get(kwargs, "distortion_mean", 1000)
        distortion_st_dev == Get(kwargs, "distortion_st_dev", 1000)
        distortion_frequency == Get(kwargs, "distortion_frequency", 500)
        tween == Get(kwargs, "tweening", "easeOutQuad")
        target_points == Get(kwargs, "target_points", 100)
        target_size == Get(kwargs, "target_size", 20)
        internalKnots == generate_internal_knots(left_boundary, right_boundary,
                                                 down_boundary, up_boundary, knots_count, g)
        count == MidPtsCnt(from_point, to_point)
        after == PrecomputeBinomials(cache, Len(internalKnots.knots) + 1, 0)
        distance == Distance(from_point, to_point)
        tweened == tween_points(count, tween, target_points)
        entering == add_overshoot_correction(tweened, distance, target_size, g)
        used == [target_size |-> target_size,
                 knots_count |-> knots_count,
                 count |-> count,
                 knots |-> internalKnots.knots,
                 box |-> internalKnots.box,
                 tween |-> tween,
                 target_points |-> target_points,
                 overshoot_prob |-> overshoot_prob(distance, target_size),
                 offset_boundary_x |-> offset_boundary_x,
                 offset_boundary_y |-> offset_boundary_y,
                 distortion_mean |-> distortion_mean,
                 distortion_st_dev |-> distortion_st_dev,
                 distortion_frequency |-> distortion_frequency]
    IN IF ~internalKnots.ok THEN FailedCurve(cache, used)
       ELSE IF distortion_frequency < 0 \/ distortion_frequency > 1000
       THEN FailedCurve(after, used)
       ELSE IF target_points < 2 THEN FailedCurve(after, used)
       ELSE [ok |-> TRUE,
             points |-> add_pause_patterns(entering, distance, g),
             cache |-> after,
             used |-> used,
             tweened |-> Len(tweened),
             entering |-> Len(entering)]

(***************************************************************************)
(* The parameter selector.  Positions are whole pixels; the distortion     *)
(* parameters are in thousandths; an edge proximity is a rational.         *)
(***************************************************************************)
\* calculate_edge_proximity: 1 at an edge or beyond it, 0 at the centre
calculate_edge_proximity(point, viewport_width, viewport_height) ==
    LET x_proximity == <<2 * Min(point[1], viewport_width - point[1]), viewport_width>>
        y_proximity == <<2 * Min(point[2], viewport_height - point[2]), viewport_height>>
        m == FracMin(x_proximity, y_proximity)
        edge_proximity == <<m[2] - m[1], m[2]>>
    IN FracMax(<<0, 1>>, FracMin(edge_proximity, <<1, 1>>))

\* the target_points tiers; where the logarithm is taken the distances
\* explored are 100 or 500 times a power of two
TargetPointsFor(distance) ==
    IF distance < 50 THEN Max((3 * distance) \div 10, 10)
    ELSE IF distance < 100 THEN Max(distance \div 2, 15)
    ELSE IF distance < 500 THEN 60 + 40 * Log2(distance \div 100)
    ELSE 100 + 50 * Log2(distance \div 500)

\* the knots options of the distance tier
KnotsOptions(distance, threshold_1, threshold_2) ==
    IF distance < threshold_1 THEN <<1, 2>>
    ELSE IF distance < threshold_2 THEN <<2, 3, 4>>
    ELSE <<3, 4, 5, 6>>

\* int(b * (1 - e * 0.7)) of the selector, with b as picked and e the proximity
DampedBoundary(b, e) == (b * (10 * e[2] - 7 * e[1])) \div (10 * e[2])
\* max(1, int(k * (1 - e * 0.5)))
DampedKnots(k, e) == Max(1, (k * (2 * e[2] - e[1])) \div (2 * e[2]))

\* the larger of the edge proximities of the two ends
MaxEdgeProximity(pre_origin, post_destination, viewport) ==
    FracMax(calculate_edge_proximity(pre_origin, viewport[1], viewport[2]),
            calculate_edge_proximity(post_destination, viewport[1], viewport[2]))

\* generate_random_curve_parameters; r holds what the random module returned:
\* the picked boundaries bx, by, the thresholds, the place of the knots pick
\* among the options, the distortion picks in hundredths and the easing
generate_random_curve_parameters(pre_origin, post_destination, viewport, r) ==
    LET distance == Distance(pre_origin, post_destination)
        options == KnotsOptions(distance, r.threshold_1, r.threshold_2)
        picked_knots == options[Min(r.knot, Len(options))]
        short == distance < 30
        shortish == distance >= 30 /\ distance < 75
        max_edge_proximity == MaxEdgeProximity(pre_origin, post_destination, viewport)
    IN [knots_count |-> DampedKnots(picked_knots, max_edge_proximity),
        tween |-> r.tween,
        target_points |-> Min(TargetPointsFor(distance), TargetPointsCap),
        offset_boundary_x |-> DampedBoundary(r.bx, max_edge_proximity),
        offset_boundary_y |-> DampedBoundary(r.by, max_edge_proximity),
        distortion_mean |-> 10 * r.mean,
        distortion_st_dev |-> IF short THEN 4 * r.st_dev
                              ELSE IF shortish THEN 7 * r.st_dev ELSE 10 * r.st_dev,
        distortion_frequency |-> IF short THEN 5 * r.freq
                                 ELSE IF shortish THEN 8 * r.freq ELSE 10 * r.freq]

\* the steady override that both _generate_human_curve and
\* _get_or_generate_curve apply to what the selector returned
SteadyOverrideSkipX(p, steady) ==
    IF steady
    THEN [p EXCEPT !.offset_boundary_y = STEADY_OFFSET_BOUNDARY,
                   !.distortion_mean = STEADY_DISTORTION_MEAN,
                   !.distortion_st_dev = STEADY_DISTORTION_STDEV,
                   !.distortion_frequency = STEADY_DISTORTION_FREQ]
    ELSE p

SteadyOverride(p, steady) ==
    IF steady
    THEN [p EXCEPT !.offset_boundary_x = STEADY_OFFSET_BOUNDARY,
                   !.offset_boundary_y = STEADY_OFFSET_BOUNDARY,
                   !.distortion_mean = STEADY_DISTORTION_MEAN,
                   !.distortion_st_dev = STEADY_DISTORTION_STDEV,
                   !.distortion_frequency = STEADY_DISTORTION_FREQ]
    ELSE p

\* the keyword arguments both builders hand to HumanizeMouseTrajectory
CurveKwargs(p) ==
    [knots_count |-> p.knots_count,
     tween |-> p.tween,
     target_points |-> p.target_points,
     offset_boundary_x |-> p.offset_boundary_x,
     offset_boundary_y |-> p.offset_boundary_y,
     distortion_mean |-> p.distortion_mean,
     distortion_st_dev |-> p.distortion_st_dev,
     distortion_frequency |-> p.distortion_frequency]

\* SystemCursor._generate_human_curve: the selector on pyautogui's screen
\* size, the steady override, the constructor
GenerateHumanCurve(from_point, to_point, steady, viewport, cache, r, g) ==
    LET params == generate_random_curve_parameters(from_point, to_point, viewport, r)
        kwargs == CurveKwargs(SteadyOverride(params, steady))
    IN [kwargs |-> kwargs, params |-> params,
        out |-> generate_curve(from_point, to_point, kwargs, cache, g)]

\* WebAdjuster._get_or_generate_curve with no curve supplied: the selector on
\* the driver's window size, the steady override, the constructor
GetOrGenerateCurve(origin, destination, steady, viewport, cache, r, g) ==
    LET params == generate_random_curve_parameters(origin, destination, viewport, r)
        kwargs == CurveKwargs(SteadyOverride(params, steady))
    IN [kwargs |-> kwargs, params |-> params,
        out |-> generate_curve(origin, destination, kwargs, cache, g)]

\* the draws of a selector call
PlainSelectorDraw ==
    [bx |-> 45, by |-> 75, tween |-> "linear", threshold_1 |-> 80, threshold_2 |-> 400,
     knot |-> 1, mean |-> 80, st_dev |-> 85, freq |-> 25]

\* the draws of a constructor call in which little happens, at a distance
PlainBuilderDraw(distance) ==
    [pauses |-> IF 0 \in PauseCounts(distance) THEN <<>> ELSE <<<<0, 2>>>>, wobble |-> <<0, 0, 0, 0>>, pickX |-> "lo", pickY |-> "lo", over |-> FALSE,
     inj |-> 80]

\* a request for a trajectory and, once served, what was built
NoKwargs == [target_points |-> 0]
NoParams == CurveKwargs([knots_count |-> 0, tween |-> "none", target_points |-> 0,
                         offset_boundary_x |-> 0, offset_boundary_y |-> 0,
                         distortion_mean |-> 0, distortion_st_dev |-> 0, distortion_frequency |-> 0])
NoOut == FailedCurve(NoCache, <<>>)

Request(via, move, steady, viewport, given, r, g) ==
    [g |-> g, r |-> r, given |-> given, target_size |-> DefaultTargetSize,
     from_point |-> move[1], to_point |-> move[2], made |-> FALSE, via |-> via, kwargs |-> NoKwargs,
     viewport |-> viewport, steady |-> steady, params |-> NoParams, out |-> NoOut]

NoTraj ==
    Request("none", <<<<0, 0>>, <<0, 0>>>>, FALSE, <<1, 1>>, NoKwargs, PlainSelectorDraw,
            PlainBuilderDraw(0))

(***************************************************************************)
(* The state machine of one SystemCursor instance and its sink.            *)
(***************************************************************************)
\* pyautogui's own defaults, and a configuration the caller had set
InitialCfgs ==
    { [MINIMUM_DURATION |-> 100, MINIMUM_SLEEP |-> 50, PAUSE |-> Ms(100)],
      [MINIMUM_DURATION |-> 20, MINIMUM_SLEEP |-> 10, PAUSE |-> Ms(0)] }

\* durations a caller passes, in ms
Durations == {Ms(600)}
\* outcomes of the clamped Fitts computation, in ms
AutoDurations == {Ms(DurationFloor), Ms(DurationCeil)}
\* the one outcome tried where a click or a drag follows the move
ShortDurations == {Ms(DurationFloor)}
DragDurations ==
    { [a |-> Ms(0), b |-> Ms(0), kind |-> "none"],
      [a |-> Ms(900), b |-> Ms(0), kind |-> "num"],
      [a |-> Ms(0), b |-> Ms(600), kind |-> "pair"] }
ClicksArgs == {PyNum(k) : k \in 0..MaxClicks} \cup {PyFloat(1)}
ClickDurations == {PyNum(40), PyNum(-1), PyStr}

(***************************************************************************)
(* The manual recorder of HCScripter (HCSWindow, AllInOneHCS).  The key    *)
(* handlers run on the keyboard listener's thread, the buttons on the Tk   *)
(* thread; each statement that touches the window's fields is one step.    *)
(* Values of the recorded list are written as Python values: an int, a     *)
(* tuple or a list of values.                                              *)
(***************************************************************************)
MaxItems == 3
INDICATOR_COLOR_INACTIVE == "red"
INDICATOR_COLOR_ACTIVE == "green"

PyInt(n) == [n |-> n, v |-> <<>>, t |-> "int"]
PyTuple(p) == [n |-> 0, v |-> <<PyInt(p[1]), PyInt(p[2])>>, t |-> "tuple"]
PyList(items) == [n |-> 0, v |-> items, t |-> "list"]

\* q[i] of Python: is i an index of q, and the place it names
InRange(q, i) == -Len(q) <= i /\ i < Len(q)
Place(q, i) == IF i < 0 THEN Len(q) + i + 1 ELSE i + 1

\* __init__
NewWindow ==
    [coordinates |-> <<>>, index |-> -1, ctrl_pressed |-> FALSE, recording_active |-> FALSE,
     indicator_color |-> INDICATOR_COLOR_INACTIVE, listener |-> "none"]
IdleThreads == [key |-> "idle", tk |-> "idle"]

\* the last statement of on_global_release: after a long hold
\* coordinates[index].append((x, y)), otherwise
\* coordinates[index] = coordinates[index][0].  An AttributeError is caught;
\* an IndexError or a TypeError ends the listener's thread.
ReleaseStore(h, long, pos) ==
    LET c == h.coordinates
        i == h.index
    IN IF ~InRange(c, i) THEN [h EXCEPT !.listener = "stopped"]
       ELSE LET item == c[Place(c, i)]
            IN IF long
               THEN IF item.t = "list"
                    THEN [h EXCEPT !.coordinates[Place(c, i)] =
                                       PyList(Append(item.v, PyTuple(pos)))]
                    ELSE h
               ELSE IF item.t = "int" \/ item.v = <<>>
                    THEN [h EXCEPT !.listener = "stopped"]
                    ELSE [h EXCEPT !.coordinates[Place(c, i)] = item.v[1]]

\* a key reaches a handler: the listener runs and its thread is free
Delivered == hcs.listener = "running" /\ threads.key = "idle"
\* the handler's first statement: if not self.recording_active: return
Enter(pc) ==
    /\ threads' = [threads EXCEPT !.key = IF hcs.recording_active THEN pc ELSE "idle"]
    /\ UNCHANGED <<hcs, started, nonRecVars>>
KeyStep(pc, h) ==
    /\ threads' = [threads EXCEPT !.key = pc]
    /\ hcs' = h
    /\ UNCHANGED nonRecVars
TkStep(pc, h) ==
    /\ threads' = [threads EXCEPT !.tk = pc]
    /\ hcs' = h
    /\ UNCHANGED nonRecVars

\* on_global_press(key) with key.char == 'z'
PressZ == Delivered /\ Len(hcs.coordinates) < MaxItems /\ Enter("move_append")
\* move(): self.coordinates.append([x, y])
MoveAppend(pos) ==
    /\ threads.key = "move_append"
    /\ KeyStep("move_index", [hcs EXCEPT !.coordinates =
                                 Append(@, PyList(<<PyInt(pos[1]), PyInt(pos[2])>>))])
    /\ started' = Append(started, "move")
\* move(): self.index += 1
MoveIndex ==
    /\ threads.key = "move_index"
    /\ KeyStep("idle", [hcs EXCEPT !.index = @ + 1])
    /\ UNCHANGED started

\* on_global_press(key) with key == keyboard.Key.ctrl_l
PressCtrl == Delivered /\ Len(hcs.coordinates) < MaxItems /\ Enter("press_test")
\* elif key == keyboard.Key.ctrl_l and not self.ctrl_pressed
PressTest ==
    /\ threads.key = "press_test"
    /\ KeyStep(IF hcs.ctrl_pressed THEN "idle" ELSE "press_set", hcs)
    /\ UNCHANGED started
\* self.ctrl_pressed = True
PressSet ==
    /\ threads.key = "press_set"
    /\ KeyStep("press_append", [hcs EXCEPT !.ctrl_pressed = TRUE])
    /\ UNCHANGED started
\* self.coordinates.append([(x, y)])
PressAppend(pos) ==
    /\ threads.key = "press_append"
    /\ KeyStep("press_index", [hcs EXCEPT !.coordinates =
                                  Append(@, PyList(<<PyTuple(pos)>>))])
    /\ started' = Append(started, "ctrl")
\* self.index += 1
PressIndex ==
    /\ threads.key = "press_index"
    /\ KeyStep("idle", [hcs EXCEPT !.index = @ + 1])
    /\ UNCHANGED started

\* on_global_release(key) with key == keyboard.Key.ctrl_l
ReleaseCtrl == Delivered /\ Enter("release_test")
\* if key == keyboard.Key.ctrl_l and self.ctrl_pressed
ReleaseTest ==
    /\ threads.key = "release_test"
    /\ KeyStep(IF hcs.ctrl_pressed THEN "release_set" ELSE "idle", hcs)
    /\ UNCHANGED started
\* self.ctrl_pressed = False
ReleaseSet ==
    /\ threads.key = "release_set"
    /\ KeyStep("release_store", [hcs EXCEPT !.ctrl_pressed = FALSE])
    /\ UNCHANGED started
\* the store, with the hold found long or short and the cursor where it is
ReleaseStoreStep(long, pos) ==
    /\ threads.key = "release_store"
    /\ KeyStep("idle", ReleaseStore(hcs, long, pos))
    /\ UNCHANGED started

\* toggle_color / toggle_recording in manual mode, from inactive:
\* self.recording_active = True
ToggleOn ==
    /\ threads.tk = "idle"
    /\ hcs.indicator_color = INDICATOR_COLOR_INACTIVE
    /\ TkStep("on_listen", [hcs EXCEPT !.recording_active = TRUE])
    /\ UNCHANGED started
\* a listener is started unless one runs
OnListen ==
    /\ threads.tk = "on_listen"
    /\ TkStep("on_color", [hcs EXCEPT !.listener = "running"])
    /\ UNCHANGED started
\* self.indicator_color = INDICATOR_COLOR_ACTIVE
OnColor ==
    /\ threads.tk = "on_color"
    /\ TkStep("idle", [hcs EXCEPT !.indicator_color = INDICATOR_COLOR_ACTIVE])
    /\ UNCHANGED started
\* from active: self.recording_active = False
ToggleOff ==
    /\ threads.tk = "idle"
    /\ hcs.indicator_color = INDICATOR_COLOR_ACTIVE
    /\ TkStep("off_stop", [hcs EXCEPT !.recording_active = FALSE])
    /\ UNCHANGED started
\* a listener that runs is stopped and forgotten; one whose thread has
\* ended is kept
OffStop ==
    /\ threads.tk = "off_stop"
    /\ TkStep("off_color", [hcs EXCEPT !.listener = IF @ = "running" THEN "none" ELSE @])
    /\ UNCHANGED started
\* self.indicator_color = INDICATOR_COLOR_INACTIVE
OffColor ==
    /\ threads.tk = "off_color"
    /\ TkStep("idle", [hcs EXCEPT !.indicator_color = INDICATOR_COLOR_INACTIVE])
    /\ UNCHANGED started

\* clear_recording, confirmed: self.coordinates = []
ClearRecording ==
    /\ threads.tk = "idle"
    /\ TkStep("clear_index", [hcs EXCEPT !.coordinates = <<>>])
    /\ started' = <<>>
\* self.index = -1
ClearIndex ==
    /\ threads.tk = "clear_index"
    /\ TkStep("idle", [hcs EXCEPT !.index = -1])
    /\ UNCHANGED started

\* no instance yet, the sink as the caller left it, the web origin at the corner,
\* the recorder window just opened
InitCursors ==
    /\ sinkPos = <<0, 0>>
    /\ sinkDown = FALSE
    /\ sinkCfg \in InitialCfgs
    /\ phase = "unborn"
    /\ original = [pause |-> Ms(0), min_duration |-> 0, min_sleep |-> 0]
    /\ ctx = NewContext
    /\ log = <<>>
    /\ lastCall = NoCall
    /\ hist = <<>>
    /\ preCfg = sinkCfg
    /\ origin_coordinate = <<0, 0>>
    /\ webCall = NoWebCall
    /\ origin_coordinates = <<0, 0>>
    /\ hcs = NewWindow
    /\ threads = IdleThreads
    /\ started = <<>>
    /\ playback_running = FALSE
    /\ workers = <<>>

Init ==
    /\ InitCursors
    /\ traj = NoTraj
    /\ binomial_cache = NoCache
    /\ binCall = NoBinCall

\* the state the handlers work on
Cur ==
    [ctx |-> ctx, log |-> <<>>, hist |-> hist, ok |-> TRUE, factor |-> 0,
     pause |-> sinkCfg.PAUSE, pos |-> sinkPos, down |-> sinkDown]

\* what a handler leaves behind, returned or raised
Commit(r, call) ==
    /\ sinkPos' = r.pos
    /\ sinkDown' = r.down
    /\ sinkCfg' = [sinkCfg EXCEPT !.PAUSE = r.pause]
    /\ ctx' = r.ctx
    /\ hist' = r.hist
    /\ log' = r.log
    /\ lastCall' = [call EXCEPT !.ok = r.ok, !.factor = r.factor]
    /\ UNCHANGED <<phase, original, preCfg>>
    /\ UNCHANGED nonSysVars

\* SystemCursor.__init__
Construct ==
    /\ phase = "unborn"
    /\ phase' = "live"
    /\ original' = [pause |-> sinkCfg.PAUSE,
                    min_duration |-> sinkCfg.MINIMUM_DURATION,
                    min_sleep |-> sinkCfg.MINIMUM_SLEEP]
    /\ preCfg' = sinkCfg
    /\ sinkCfg' = [MINIMUM_DURATION |-> 0, MINIMUM_SLEEP |-> 0, PAUSE |-> Ms(0)]
    /\ ctx' = NewContext
    /\ lastCall' = [NoCall EXCEPT !.op = "init"]
    /\ log' = <<>>
    /\ UNCHANGED <<sinkPos, sinkDown, hist>>
    /\ UNCHANGED nonSysVars

\* a cleanup that leaves PAUSE as the last move set it
cleanupKeepPause ==
    /\ phase = "live"
    /\ phase' = "cleaned"
    /\ sinkCfg' = [sinkCfg EXCEPT !.MINIMUM_DURATION = original.min_duration,
                                  !.MINIMUM_SLEEP = original.min_sleep]
    /\ lastCall' = [NoCall EXCEPT !.op = "cleanup"]
    /\ UNCHANGED <<sinkPos, sinkDown, original, ctx, hist, preCfg, log>>
    /\ UNCHANGED nonSysVars

\* SystemCursor.cleanup, also run by __exit__
cleanup ==
    /\ phase = "live"
    /\ phase' = "cleaned"
    /\ sinkCfg' = [MINIMUM_DURATION |-> original.min_duration,
                   MINIMUM_SLEEP |-> original.min_sleep,
                   PAUSE |-> original.pause]
    /\ lastCall' = [NoCall EXCEPT !.op = "cleanup"]
    /\ UNCHANGED <<sinkPos, sinkDown, original, ctx, hist, preCfg, log>>
    /\ UNCHANGED nonSysVars

\* SystemCursor.move_to
move_to(cap, point, duration, human_curve, target_size, mids, autoDur) ==
    \E r \in {MoveTo(Cur, point, duration, human_curve, target_size, mids, autoDur)} :
       /\ phase = "live"
       /\ r.ctx.movement_count <= cap
       /\ Commit(r, [NoCall EXCEPT !.op = "move", !.a = point, !.auto = duration.none,
                                   !.given = ~human_curve.none,
                                   !.curve = IF human_curve.none THEN <<>> ELSE human_curve.v])

\* SystemCursor.click_on
click_on(cap, point, clicks, click_duration, target_size, mids, autoDur, pre, pauses) ==
    \E r \in {ClickOn(Cur, point, clicks, click_duration, target_size, mids, autoDur, pre, pauses)} :
       /\ phase = "live"
       /\ r.ctx.movement_count <= cap
       /\ Commit(r, [NoCall EXCEPT !.op = "click", !.a = point, !.n = clicks,
                                   !.hold = click_duration, !.auto = TRUE])

\* SystemCursor.drag_and_drop
drag_and_drop(cap, from_point, to_point, duration, mids1, mids2, auto1, auto2) ==
    \E r \in {DragAndDrop(Cur, from_point, to_point, duration, mids1, mids2, auto1, auto2)} :
       /\ phase = "live"
       /\ r.ctx.movement_count <= cap
       /\ Commit(r, [NoCall EXCEPT !.op = "drag", !.a = from_point, !.b = to_point,
                                   !.auto = (duration.kind = "none")])

\* SystemCursor.idle_jitter, a static method: no instance is needed
idle_jitter(duration, intensity, units) ==
    \E r \in {IdleJitter(Cur, duration, intensity, units)} :
       Commit(r, [NoCall EXCEPT !.op = "jitter", !.n = duration, !.hold = intensity])

\* the interior of a generated trajectory: none, or a point off the line
Mids == {<<>>, <<<<1, 2>>>>}
\* supplied trajectories, which need not end at the destination
Curves == {NoCurve} \cup {Some(c) : c \in SeqsUpTo({<<2, 4>>}, MaxCurveLen)}
PauseDraws == {CLICK_PAUSE_MIN, CLICK_PAUSE_MAX}
PreDraws == {PreClickMin, PreClickMax}
OptDurations == {None} \cup {Some(d) : d \in Durations}
\* the draws a call consumes: none when it fails its argument checks
MidsOf(valid, human_curve) == IF valid /\ human_curve.none THEN Mids ELSE {<<>>}
AutoOf(valid, auto) == IF valid /\ auto THEN AutoDurations ELSE {Ms(DurationFloor)}

NextMoveTo ==
    \/ \E point \in ValidPoints, duration \in OptDurations, human_curve \in Curves :
         \E mids \in MidsOf(TRUE, human_curve), autoDur \in AutoOf(TRUE, duration.none) :
           move_to(MaxMoves, point, duration, human_curve, DefaultTargetSize, mids, autoDur)
    \/ \E point \in InvalidPoints, duration \in OptDurations :
         move_to(MaxMoves, point, duration, NoCurve, DefaultTargetSize, <<>>, Ms(DurationFloor))

NextClickOn ==
    \/ \E clicks \in {c \in ClicksArgs : ValidClicks(c)},
          click_duration \in {d \in ClickDurations : ValidClickDuration(d)} :
         \E mids \in Mids, autoDur \in ShortDurations, pre \in PreDraws,
            pauses \in [1..clicks.v -> PauseDraws] :
           click_on(MaxMoves, Pt(3, 1), clicks, click_duration, DefaultTargetSize,
                    mids, autoDur, pre, pauses)
    \/ \E point \in {Pt(3, 1)} \cup InvalidPoints, clicks \in ClicksArgs,
          click_duration \in ClickDurations :
         /\ Cardinality({b \in {ValidPoint(point), ValidClicks(clicks)} : ~b})
              + (IF ValidClickDuration(click_duration) THEN 0 ELSE 1) = 1
         /\ click_on(MaxMoves, point, clicks, click_duration, DefaultTargetSize,
                     <<>>, Ms(DurationFloor), PreClickMin, <<>>)

NextDragAndDrop ==
    \E from_point \in {Pt(3, 1)} \cup InvalidPoints, to_point \in {Pt(2, 4)} \cup InvalidPoints,
       duration \in DragDurations :
      LET v1 == ValidPoint(from_point) /\ IsSeq(to_point)
          v2 == v1 /\ ValidPoint(to_point)
          auto == duration.kind = "none"
      IN /\ ValidPoint(from_point) \/ ValidPoint(to_point)
         /\ \E mids1 \in MidsOf(v1, NoCurve), mids2 \in MidsOf(v2, NoCurve),
               auto1 \in ShortDurations, auto2 \in ShortDurations :
              drag_and_drop(MaxMoves, from_point, to_point, duration, mids1, mids2, auto1, auto2)

Next ==
    \/ Construct
    \/ cleanup
    \/ NextMoveTo
    \/ NextClickOn
    \/ NextDragAndDrop

Spec == Init /\ [][Next]_vars

(***************************************************************************)
(* Long sessions of one instance: every way of timing a movement, with     *)
(* target sizes that differ, and one trajectory shape.                     *)
(***************************************************************************)
NextSessionMoveTo ==
    \E point \in ValidPoints, duration \in OptDurations :
      \E target_size \in IF duration.none THEN TargetSizes ELSE {DefaultTargetSize} :
        move_to(MaxSession, point, duration, NoCurve, target_size, <<>>, Ms(DurationFloor))

NextSessionClickOn ==
    \E target_size \in TargetSizes :
      click_on(MaxSession, Pt(3, 1), PyNum(1), PyNum(40), target_size,
               <<>>, Ms(DurationFloor), PreClickMin, <<CLICK_PAUSE_MIN>>)

NextSessionDragAndDrop ==
    \E duration \in DragDurations :
      drag_and_drop(MaxSession, Pt(3, 1), Pt(2, 4), duration, <<>>, <<>>,
                    Ms(DurationFloor), Ms(DurationFloor))

NextSession ==
    \/ Construct
    \/ NextSessionMoveTo
    \/ NextSessionClickOn
    \/ NextSessionDragAndDrop

SpecSession == Init /\ [][NextSession]_vars

(***************************************************************************)
(* The web path: moves to integer page positions along fractional points.  *)
(***************************************************************************)
\* destinations in pixels
WebDestinations == {<<0, 0>>, <<3, 0>>, <<2, 3>>}
\* interior points, in floats: (0.125, 0.125), (0.375, 1.5), (2.5, 0.375), (1.5, 2.5)
WebMidPoints == {<<1, 1>>, <<3, 12>>, <<20, 3>>, <<12, 20>>}

WebMids == SeqsUpTo(WebMidPoints, MaxWebMid)

NextWeb ==
    \E destination \in WebDestinations, mids \in WebMids :
      /\ \A k \in 1..2 : destination[k] - origin_coordinate[k] \in -MaxWebSpan..MaxWebSpan
      /\ web_move_to(destination, mids)

SpecWeb == Init /\ [][NextWeb]_vars

(***************************************************************************)
(* The web path against a driver that may refuse to perform: targets that  *)
(* are elements or positions, curves supplied or generated, and every      *)
(* outcome of the two perform() calls.                                     *)
(***************************************************************************)
TargetKinds == {"element", "position"}
PerformOutcomes == {"ok", "out_of_bounds", "other"}
\* curves handed to move_to: none, one with no points, and ones of whole pixels
SuppliedCurves ==
    {NoCurve, Some(<<>>), Some(<<AsFloat(<<1, 0>>)>>),
     Some(<<AsFloat(<<0, 1>>), <<12, 20>>, AsFloat(<<2, 3>>)>>)}

\* destinations in pixels, and the interior point (0.375, 1.5) or none
SinkDestinations == {<<3, 0>>, <<2, 3>>}
SinkMids == {<<>>, <<(<<3, 12>>)>>}

NextWebSink ==
    \E kind \in TargetKinds, destination \in SinkDestinations, human_curve \in SuppliedCurves,
       mids \in SinkMids, performs \in PerformOutcomes \X PerformOutcomes :
      /\ \A k \in 1..2 : destination[k] - origin_coordinate[k] \in -MaxWebSpan..MaxWebSpan
      /\ web_move(kind, destination, human_curve, mids, performs)

SpecWebSink == Init /\ [][NextWebSink]_vars

\* WebCursor.move_to and WebCursor.move_by_offset over one WebAdjuster: targets
\* of every type, a relative_position that passes the check or fails it, the
\* cursor's own origin list or one the caller hands in
CursorTargetKinds == TargetKinds \cup {"other"}
GivenOrigins == {NoOrigin, Some(<<1, 1>>)}
CursorOffsets == {<<1, 2>>, <<-2, 0>>}
ElementCentres == {<<2, 3>>}
CursorPerforms == {<<"ok", "ok">>, <<"out_of_bounds", "ok">>, <<"out_of_bounds", "other">>,
                   <<"other", "ok">>}

NextWebCursor ==
    \/ \E kind \in TargetKinds, destination \in SinkDestinations, centre \in ElementCentres,
          given \in GivenOrigins, mids \in SinkMids, performs \in CursorPerforms :
         cursor_move_to(kind, destination, IF kind = "element" THEN centre ELSE destination,
                        TRUE, given, mids, performs)
    \/ \E kind \in CursorTargetKinds, relative_ok \in BOOLEAN, given \in GivenOrigins :
         /\ ~relative_ok \/ kind = "other"
         /\ cursor_move_to(kind, <<0, 0>>, <<0, 0>>, relative_ok, given, <<>>, <<"ok", "ok">>)
    \/ \E offset \in CursorOffsets, mids \in SinkMids, performs \in CursorPerforms :
         /\ \A k \in 1..2 : origin_coordinate[k] + offset[k] \in 0..MaxWebSpan
         /\ cursor_move_by_offset(offset, mids, performs)

SpecWebCursor == Init /\ [][NextWebCursor]_vars

(***************************************************************************)
(* Playback of a recording: start_playback and stop_playback on the Tk     *)
(* thread (stop_playback also on the hotkey listener's thread) and the     *)
(* playback_worker threads, one step per check of playback_running and two *)
(* per recorded action.  A worker is                                       *)
(*   [pc, rep, i, repetitions, speed, current_pos, original]               *)
(* with pc "new" (thread started), "rep" (at the head of the outer loop),  *)
(* "item" (at the head of the inner loop), "act" (past the check, about to *)
(* move to the item), "mid" (moved, the rest of the action to come),       *)
(* "finish" (past the loops) and "done".                                   *)
(***************************************************************************)
MaxWorkers == 2
\* repetition_var after toggle_infinite
toggle_infinite(infinite) == IF infinite THEN 999999 ELSE 1
\* speed_var, in tenths: the default and "very fast"
Speeds == {10, 40}
\* repetition_var: the default and the infinite setting
RepetitionSettings == {toggle_infinite(FALSE), toggle_infinite(TRUE)}
PlaybackMids == {<<>>}
\* pickled recordings: a move and a click; a drag
Recordings ==
    { <<PyList(<<PyInt(9), PyInt(1)>>), PyTuple(<<1, 8>>)>>,
      <<PyList(<<PyTuple(<<2, 5>>), PyTuple(<<9, 5>>)>>)>> }

\* the square of the distance the worker compares with 5
Dist2(a, b) == (a[1] - b[1]) * (a[1] - b[1]) + (a[2] - b[2]) * (a[2] - b[2])

\* the distance between two recorded points, taken down to the whole pixel
WholeDistance(dist2) == CHOOSE r \in 0..dist2 : r * r <= dist2 /\ dist2 < (r + 1) * (r + 1)

\* calculate_move_duration(distance, speed), in ms, for a speed in tenths
calculate_move_duration(dist2, speed) ==
    IF speed >= 40 THEN Ms(50)
    ELSE LET base_duration == Min(300 + WholeDistance(dist2), 1500)
             final_duration == Frac(base_duration * 10, speed)
         IN IF FracIn(final_duration, 100, 100 * base_duration) THEN final_duration ELSE Ms(100)

\* the pair of integers of a recorded tuple
PairOf(item) == <<item.v[1].n, item.v[2].n>>

\* self.cursor.move_to(point, duration=move_duration, steady=True) on the
\* sink, which the worker makes only over more than 5 pixels
PlaybackMove(s, from_pos, point, move_duration, mids) ==
    IF Dist2(point, from_pos) > 25
    THEN MoveTo(s, Pt(point[1], point[2]), Some(move_duration), NoCurve, DefaultTargetSize,
                mids, Ms(DurationFloor))
    ELSE s

\* the drag of a drag item: its move is made whatever the distance
PlaybackDrag(s, end_pos, drag_duration, mids) ==
    MoveTo(s, Pt(end_pos[1], end_pos[2]), Some(drag_duration), NoCurve, DefaultTargetSize,
           mids, Ms(DurationFloor))

\* where the first move of an item's action goes; an item of no known shape
\* has no action
FirstPoint(item, current_pos) ==
    IF item.t = "tuple" THEN PairOf(item)
    ELSE IF item.t = "list" /\ Len(item.v) = 2 /\ item.v[1].t = "int" THEN PairOf(item)
    ELSE IF item.t = "list" /\ Len(item.v) = 2 /\ item.v[1].t = "tuple" THEN PairOf(item.v[1])
    ELSE current_pos

NewWorker ==
    [i |-> 0, original |-> [pause |-> Ms(0), min_duration |-> 0, min_sleep |-> 0], pc |-> "new", speed |-> 10, current_pos |-> <<0, 0>>,
     rep |-> 0,
     repetitions |-> 0]

Running(w) == workers[w].pc \notin {"done"}

PlaySink(r) ==
    /\ sinkPos' = r.pos
    /\ sinkDown' = r.down
    /\ sinkCfg' = [sinkCfg EXCEPT !.PAUSE = r.pause]
    /\ UNCHANGED <<phase, original, ctx, log, lastCall, hist, preCfg>>

PlayFrame == UNCHANGED <<webVars, curveVars, recVars>>

\* load_recording: the pickled list becomes self.coordinates; recordings
\* are loaded between runs
load_recording(recording) ==
    /\ \A w \in 1..Len(workers) : ~Running(w)
    /\ hcs' = [hcs EXCEPT !.coordinates = recording, !.index = Len(recording) - 1]
    /\ started' = [k \in 1..Len(recording) |-> "file"]
    /\ UNCHANGED <<threads, playVars, nonRecVars>>

\* start_playback: a warning and nothing else with no recording or with
\* playback_running set; otherwise the flag is set and a thread started
start_playback ==
    /\ Len(workers) < MaxWorkers
    /\ IF Len(hcs.coordinates) = 0 \/ playback_running
       THEN UNCHANGED playVars
       ELSE /\ playback_running' = TRUE
            /\ workers' = Append(workers, NewWorker)
    /\ UNCHANGED <<sysVars, webVars, curveVars, recVars>>

\* stop_playback, from the Stop button or the Ctrl+Alt hotkey
stop_playback ==
    /\ playback_running' = FALSE
    /\ UNCHANGED <<workers, sysVars, webVars, curveVars, recVars>>

\* self.cursor = SystemCursor(); speed and repetitions are read from the
\* window, and a value Tk cannot read raises into the outer handler, which
\* calls stop_playback
WorkerInit(w, speed, repetitions, readable) ==
    /\ workers[w].pc = "new"
    /\ sinkCfg' = [MINIMUM_DURATION |-> 0, MINIMUM_SLEEP |-> 0, PAUSE |-> Ms(0)]
    /\ workers' = [workers EXCEPT ![w] =
                     [@ EXCEPT !.original = [pause |-> sinkCfg.PAUSE,
                                             min_duration |-> sinkCfg.MINIMUM_DURATION,
                                             min_sleep |-> sinkCfg.MINIMUM_SLEEP],
                               !.speed = speed,
                               !.repetitions = repetitions,
                               !.pc = IF readable THEN "rep" ELSE "done"]]
    /\ playback_running' = (readable /\ playback_running)
    /\ UNCHANGED <<sinkPos, sinkDown, phase, original, ctx, log, lastCall, hist, preCfg>>
    /\ PlayFrame

\* for rep in range(repetitions): if not self.playback_running: break;
\* current_pos = pyautogui.position().  The 999999 passes of the infinite
\* setting are not counted.
WorkerRep(w) ==
    /\ workers[w].pc = "rep"
    /\ LET me == workers[w]
       IN workers' = [workers EXCEPT ![w] =
                        IF me.rep < me.repetitions /\ playback_running
                        THEN [me EXCEPT !.pc = "item", !.i = 0, !.current_pos = sinkPos,
                                        !.rep = IF me.repetitions = toggle_infinite(TRUE)
                                                THEN me.rep ELSE me.rep + 1]
                        ELSE [me EXCEPT !.pc = "finish"]]
    /\ UNCHANGED <<playback_running, sysVars>>
    /\ PlayFrame

\* an inner loop that never looks at playback_running
WorkerItemNoCheck(w) ==
    /\ workers[w].pc = "item"
    /\ workers' = [workers EXCEPT ![w] =
                     IF @.i < Len(hcs.coordinates)
                     THEN [@ EXCEPT !.pc = "act"]
                     ELSE [@ EXCEPT !.pc = "rep"]]
    /\ UNCHANGED <<playback_running, sysVars>>
    /\ PlayFrame

\* for i, coordinate in enumerate(self.coordinates):
\*     if not self.playback_running: break
WorkerItem(w) ==
    /\ workers[w].pc = "item"
    /\ workers' = [workers EXCEPT ![w] =
                     IF @.i < Len(hcs.coordinates) /\ playback_running
                     THEN [@ EXCEPT !.pc = "act"]
                     ELSE [@ EXCEPT !.pc = "rep"]]
    /\ UNCHANGED <<playback_running, sysVars>>
    /\ PlayFrame

\* the first move of the action: to the click point, the move target or the
\* start of the drag
WorkerAct(w, mids) ==
    /\ workers[w].pc = "act"
    /\ \E point \in {FirstPoint(hcs.coordinates[workers[w].i + 1], workers[w].current_pos)} :
       \E move_duration \in {calculate_move_duration(Dist2(point, workers[w].current_pos),
                                                     workers[w].speed)} :
       \E r \in {PlaybackMove(Cur, workers[w].current_pos, point, move_duration, mids)} :
          PlaySink(r)
    /\ workers' = [workers EXCEPT ![w].pc = "mid"]
    /\ UNCHANGED playback_running
    /\ PlayFrame

\* what the rest of the action does to the sink and where it leaves
\* current_pos: the click; nothing more for a move; mouseDown, the move to
\* the end of the drag and mouseUp.  An exception out of the sink (failsafe)
\* is printed and the loop continues.
RestOfAction(s, item, first, current_pos, drag_duration, mids, failsafe) ==
    IF item.t = "tuple"
    THEN [current_pos |-> IF failsafe THEN current_pos ELSE first,
          sink |-> IF failsafe THEN s ELSE mouseUp(mouseDown(s))]
    ELSE IF item.t = "list" /\ Len(item.v) = 2 /\ item.v[1].t = "tuple"
    THEN [current_pos |-> IF failsafe THEN current_pos ELSE PairOf(item.v[2]),
          sink |-> IF failsafe THEN mouseDown(s)
                   ELSE mouseUp(PlaybackDrag(mouseDown(s), PairOf(item.v[2]),
                                             drag_duration, mids))]
    ELSE [current_pos |-> IF Dist2(first, current_pos) > 25 THEN first ELSE current_pos,
          sink |-> s]

\* the end of a drag item, the first point for any other
LastPoint(item, first) ==
    IF item.t = "list" /\ Len(item.v) = 2 /\ item.v[1].t = "tuple"
    THEN PairOf(item.v[2]) ELSE first

WorkerActEnd(w, mids, failsafe) ==
    /\ workers[w].pc = "mid"
    /\ \E item \in {hcs.coordinates[workers[w].i + 1]} :
       \E first \in {FirstPoint(item, workers[w].current_pos)} :
       \E drag_duration \in {calculate_move_duration(Dist2(LastPoint(item, first), first),
                                                     workers[w].speed)} :
       \E a \in {RestOfAction(Cur, item, first, workers[w].current_pos, drag_duration,
                              mids, failsafe)} :
         /\ PlaySink(a.sink)
         /\ workers' = [workers EXCEPT ![w].pc = "item", ![w].i = @ + 1,
                                       ![w].current_pos = a.current_pos]
    /\ UNCHANGED playback_running
    /\ PlayFrame

\* past the loops: if self.playback_running: self.playback_running = False
WorkerFinish(w) ==
    /\ workers[w].pc = "finish"
    /\ workers' = [workers EXCEPT ![w].pc = "done"]
    /\ playback_running' = FALSE
    /\ UNCHANGED sysVars
    /\ PlayFrame

WorkerStep(w, speeds) ==
    \/ \E speed \in speeds, repetitions \in RepetitionSettings, readable \in BOOLEAN :
         WorkerInit(w, speed, repetitions, readable)
    \/ WorkerRep(w)
    \/ WorkerItem(w)
    \/ \E mids \in PlaybackMids : WorkerAct(w, mids)
    \/ \E mids \in PlaybackMids, failsafe \in BOOLEAN : WorkerActEnd(w, mids, failsafe)
    \/ WorkerFinish(w)

NextPlayback ==
    \/ \E recording \in Recordings : load_recording(recording)
    \/ start_playback
    \/ stop_playback
    \/ \E w \in 1..MaxWorkers : w <= Len(workers) /\ WorkerStep(w, Speeds)

InitPlayback == Init /\ sinkCfg.PAUSE = Ms(100)

SpecPlayback == InitPlayback /\ [][NextPlayback]_vars

\* the same at the default speed, with the worker threads scheduled: a worker
\* that can take a step takes one
NextPlaybackFair ==
    \/ \E recording \in Recordings : load_recording(recording)
    \/ start_playback
    \/ stop_playback
    \/ \E w \in 1..MaxWorkers : w <= Len(workers) /\ WorkerStep(w, {10})

SpecPlaybackFair ==
    /\ InitPlayback
    /\ [][NextPlaybackFair]_vars
    /\ \A w \in 1..MaxWorkers : WF_vars(w <= Len(workers) /\ WorkerStep(w, {10}))

(***************************************************************************)
(* Manual recording: keys and buttons in any order, the two threads        *)
(* interleaved statement by statement.                                     *)
(***************************************************************************)
\* where pyautogui.position() finds the cursor
CursorPositions == {<<1, 1>>, <<2, 5>>}

NextRecorder ==
    \/ PressZ
    \/ \E pos \in CursorPositions : MoveAppend(pos)
    \/ MoveIndex
    \/ PressCtrl
    \/ PressTest
    \/ PressSet
    \/ \E pos \in CursorPositions : PressAppend(pos)
    \/ PressIndex
    \/ ReleaseCtrl
    \/ ReleaseTest
    \/ ReleaseSet
    \/ \E long \in BOOLEAN, pos \in CursorPositions : ReleaseStoreStep(long, pos)
    \/ ToggleOn
    \/ OnListen
    \/ OnColor
    \/ ToggleOff
    \/ OffStop
    \/ OffColor
    \/ ClearRecording
    \/ ClearIndex

InitRecorder == Init /\ sinkCfg.PAUSE = Ms(0)

SpecRecorder == InitRecorder /\ [][NextRecorder]_vars

(***************************************************************************)
(* Idle jitter: durations below and above a tenth of a second, intensities *)
(* inside and outside the clamp, arguments that are refused.               *)
(***************************************************************************)
\* the most micro-movements of one call that is tried
MaxJitter == 3
\* how far from the corner the cursor is let wander
JitterBox == 12
\* in ms: 0.05 s, 0.1 s, 0.25 s, ... ; then 0, and no number
JitterDurations ==
    {PyNum(50)} \cup {PyNum(100 * n) : n \in 1..MaxJitter} \cup {PyNum(250), PyNum(0), PyStr}
\* in tenths: 1.0, 0.2, 3.0; then 0
JitterIntensities == {PyNum(10), PyNum(2), PyNum(30), PyNum(0)}
JitterUnits == {<<-1, 0>>, <<1, 1>>}

NextJitter ==
    \E duration \in JitterDurations, intensity \in JitterIntensities,
       units \in [1..MaxJitter -> JitterUnits] :
      /\ idle_jitter(duration, intensity, units)
      /\ \A k \in 1..2 : sinkPos'[k] \in -JitterBox..JitterBox

SpecJitter == InitRecorder /\ [][NextJitter]_vars

(***************************************************************************)
(* Building one trajectory: the request is drawn at the start, one of the  *)
(* three ways to a HumanizeMouseTrajectory then serves it.                 *)
(***************************************************************************)
\* the screen, and the browser window
Viewports == {<<1920, 1080>>}

\* origin and destination: nowhere to go; 40, 60, 100, 400, 1000 and 4000
\* pixels along a row; 500 pixels down a column; 100 pixels from a point 2.5 %
\* of the width off the left edge
CurveMoves ==
    { <<<<960, 540>>, <<960, 540>>>>,
      <<<<960, 540>>, <<1000, 540>>>>,
      <<<<960, 540>>, <<1020, 540>>>>,
      <<<<960, 540>>, <<1060, 540>>>>,
      <<<<560, 540>>, <<960, 540>>>>,
      <<<<960, 40>>, <<960, 540>>>>,
      <<<<460, 540>>, <<1460, 540>>>>,
      <<<<0, 540>>, <<4000, 540>>>>,
      <<<<48, 540>>, <<148, 540>>>> }

\* the easings the selector picks among that are explored
TweenOptions == {"linear", "easeOutCubic"}

\* what the random module returns to the selector
SelectorDraws ==
    { [bx |-> bx, by |-> by, tween |-> tween, threshold_1 |-> th[1], threshold_2 |-> th[2],
       knot |-> knot, mean |-> ds[1], st_dev |-> ds[2], freq |-> ds[3]] :
        bx \in {20, 45, 75, 100}, by \in {20, 100}, th \in {<<80, 400>>, <<120, 600>>},
        knot \in 1..4, ds \in {<<80, 85, 25>>, <<109, 109, 69>>}, tween \in TweenOptions }

\* pauses: none, one, two apart, two next to each other
PausePicks == {<<>>, <<<<0, 2>>>>, <<<<0, 4>>, <<-1, 4>>>>, <<<<0, 3>>, <<1, 2>>>>}

\* what the random module returns to the constructor
BuilderDraws ==
    { [pauses |-> ps, wobble |-> w, pickX |-> pk, pickY |-> pk, over |-> over, inj |-> inj] :
        w \in {<<0, 0, 0, 0>>, <<5, -5, 5, -5>>, <<-5, 5, -5, 5>>}, pk \in {"lo", "hi"},
        over \in BOOLEAN, inj \in {80, 90}, ps \in PausePicks }

\* keyword arguments of a direct construction
DirectKwargs ==
    { [target_points |-> tp] : tp \in 0..MaxDirectPoints }
    \cup { [target_points |-> tp, tweening |-> tw] :
             tw \in TweenOptions, tp \in 2..MaxDirectPoints }
    \cup { [knots_count |-> 0], [distortion_frequency |-> 1200],
           [offset_boundary_x |-> -30, offset_boundary_y |-> 0] }

\* the target_size a move_to is called with: small, the default, large
MoveTargetSizes == {10, DefaultTargetSize, 50}

\* the pauses drawn are as many as random.choice can ask for at the distance,
\* and the overshoot place is only drawn where one is made
DrawsFit(move, g) ==
    /\ Distance(move[1], move[2]) >= 300 => Len(g.pauses) \in PauseCounts(Distance(move[1], move[2]))
    /\ Distance(move[1], move[2]) < 300 => g.pauses = <<>>
    /\ ~g.over => g.inj = 80

CurveRequests ==
    { Request(via, move, steady, viewport, NoKwargs, r, PlainBuilderDraw(Distance(move[1], move[2]))) :
        via \in {"system", "web"}, move \in CurveMoves, steady \in BOOLEAN,
        viewport \in Viewports, r \in SelectorDraws }
    \cup { Request("system", q[1], q[3], q[4], NoKwargs, PlainSelectorDraw, q[2]) :
             q \in {c \in CurveMoves \X BuilderDraws \X BOOLEAN \X Viewports :
                      DrawsFit(c[1], c[2])} }
    \cup { Request("direct", q[1], FALSE, q[3], q[4], PlainSelectorDraw, q[2]) :
             q \in {c \in CurveMoves \X BuilderDraws \X Viewports \X DirectKwargs :
                      DrawsFit(c[1], c[2])} }
    \cup { [Request("system", move, FALSE, viewport, NoKwargs, PlainSelectorDraw,
                     PlainBuilderDraw(Distance(move[1], move[2])))
               EXCEPT !.target_size = target_size] :
             move \in CurveMoves, viewport \in Viewports, target_size \in MoveTargetSizes }

InitCurve ==
    /\ InitCursors
    /\ sinkCfg.PAUSE = Ms(0)
    /\ traj \in CurveRequests
    /\ binomial_cache = NoCache
    /\ binCall = NoBinCall

\* what a construction leaves behind
Built(b) ==
    /\ traj' = [traj EXCEPT !.made = TRUE, !.params = b.params, !.kwargs = b.kwargs,
                            !.out = b.out]
    /\ binomial_cache' = b.out.cache
    /\ UNCHANGED <<sysVars, webVars, binCall, recVars, playVars>>

\* HumanizeMouseTrajectory(from_point, to_point, **kwargs) called by a user
BuildDirect ==
    /\ ~traj.made /\ traj.via = "direct"
    /\ Built([kwargs |-> traj.given, params |-> NoParams,
              out |-> generate_curve(traj.from_point, traj.to_point, traj.given,
                                     binomial_cache, traj.g)])

\* SystemCursor.move_to(point, target_size=traj.target_size) with no curve
\* supplied builds its own: _generate_human_curve(from_point, point, steady)
BuildSystem ==
    /\ ~traj.made /\ traj.via = "system"
    /\ Built(GenerateHumanCurve(traj.from_point, traj.to_point, traj.steady, traj.viewport,
                                binomial_cache, traj.r, traj.g))

\* WebAdjuster.move_to with no curve supplied builds its own
BuildWeb ==
    /\ ~traj.made /\ traj.via = "web"
    /\ Built(GetOrGenerateCurve(traj.from_point, traj.to_point, traj.steady, traj.viewport,
                                binomial_cache, traj.r, traj.g))

NextCurve ==
    \/ BuildDirect
    \/ BuildSystem
    \/ BuildWeb

SpecCurve == InitCurve /\ [][NextCurve]_vars

(***************************************************************************)
(* Calls of BezierCalculator.binomial, whose cache outlives every call.    *)
(***************************************************************************)
\* BezierCalculator.binomial(n, k)
CallBinomial(n, k) ==
    \E r \in {binomial(binomial_cache, n, k)} :
      /\ \/ r.cache = binomial_cache
         \/ binomial_cache = NoCache
         \/ \A key \in DOMAIN r.cache : key[1] <= MaxSmallN
      /\ binomial_cache' = r.cache
      /\ binCall' = [n |-> n, k |-> k, made |-> TRUE, value |-> r.value,
                     fresh |-> binomial(NoCache, n, k).value,
                     hit |-> <<n, k>> \in DOMAIN binomial_cache]
      /\ UNCHANGED <<sysVars, webVars, traj, recVars, playVars>>

NextBinomial ==
    \E n \in 0..MaxBinomialN : \E k \in 0..(n + 1) : CallBinomial(n, k)

\* the cache is empty when the class is loaded
InitBinomial == Init /\ sinkCfg.PAUSE = Ms(0)

SpecBinomial == InitBinomial /\ [][NextBinomial]_vars

(***************************************************************************)
(* Properties of the system cursor.                                        *)
(***************************************************************************)
Last(q) == q[Len(q)]
IndicesOf(kind) == {i \in 1..Len(log) : log[i].e = kind}

\* C1: when move_to completes, the last event emitted to the sink is a move
\* to the destination and the sink's position is the destination, whatever
\* the trajectory's own last point is.
EndpointReached ==
    (lastCall.op = "move" /\ lastCall.ok) =>
        /\ Len(log) >= 2
        /\ Last(log) = EvMove(XY(lastCall.a))
        /\ sinkPos = XY(lastCall.a)

\* a completed move_to along a supplied trajectory that ends elsewhere
EndpointWitness ==
    /\ lastCall.op = "move" /\ lastCall.ok /\ lastCall.given
    /\ Len(lastCall.curve) > 0
    /\ Last(lastCall.curve) # XY(lastCall.a)
    /\ log[Len(log) - 1] = EvMove(Last(lastCall.curve))

\* C3: a drag emits the moves to the source, one press, the moves to the
\* target, one release, in this order: never a second press, nothing after
\* the release, and when the call returns the log is moves, press, moves,
\* release with the button up.
DragOrder ==
    lastCall.op = "drag" =>
        /\ Cardinality(IndicesOf("press")) <= 1
        /\ \A i \in IndicesOf("release") : i = Len(log) /\ IndicesOf("press") # {}
        /\ \A i \in IndicesOf("press") :
              /\ i >= 2
              /\ \A j \in 1..(i - 1) : log[j].e = "move"
              /\ log[i - 1] = EvMove(XY(lastCall.a))
        /\ \A i \in 1..Len(log) : log[i].e \in {"move", "press", "release"}
        /\ lastCall.ok =>
              /\ Cardinality(IndicesOf("press")) = 1
              /\ Last(log) = EvRelease
              /\ log[Len(log) - 1] = EvMove(XY(lastCall.b))
              /\ \A i \in IndicesOf("press") : Len(log) - 1 > i + 1
              /\ ~sinkDown

\* a drag that returned, between two different points
DragWitness ==
    /\ lastCall.op = "drag" /\ lastCall.ok
    /\ XY(lastCall.a) # XY(lastCall.b)
    /\ Len(log) >= 8

\* C4: in a drag the press is never immediately followed by a move: a sleep
\* of about 50 ms comes between them.
PressThenSleep ==
    lastCall.op = "drag" =>
        \A i \in IndicesOf("press") :
            i < Len(log) => (log[i + 1].e = "sleep" /\ FracIn(log[i + 1].t, 50, 50))

\* C5: click_on with n clicks emits the complete move, one pre-click sleep,
\* then n times press, hold, release, inter-click sleep; no move after the
\* first press; the button is up when the call returns.
ClickSequence ==
    (lastCall.op = "click" /\ lastCall.ok) =>
        LET n == lastCall.n.v
            m == Len(log) - 1 - 4 * n
        IN /\ n >= 1
           /\ m >= 2
           /\ \A i \in 1..m : log[i].e = "move"
           /\ log[m] = EvMove(XY(lastCall.a))
           /\ log[m + 1].e = "sleep" /\ FracIn(log[m + 1].t, PreClickMin, PreClickMax)
           /\ \A k \in 0..(n - 1) :
                 /\ log[m + 2 + 4 * k] = EvPress
                 /\ log[m + 3 + 4 * k] = EvSleep(Ms(lastCall.hold.v))
                 /\ log[m + 4 + 4 * k] = EvRelease
                 /\ log[m + 5 + 4 * k].e = "sleep"
                 /\ FracIn(log[m + 5 + 4 * k].t, CLICK_PAUSE_MIN, CLICK_PAUSE_MAX)
           /\ Cardinality(IndicesOf("press")) = n
           /\ Cardinality(IndicesOf("release")) = n
           /\ ~sinkDown

\* a click_on of more than one click that returned
ClickWitness ==
    /\ lastCall.op = "click" /\ lastCall.ok
    /\ lastCall.n.v >= 2
    /\ Cardinality(IndicesOf("press")) >= 2

\* the arguments a call of move_to or click_on was made with are invalid
InvalidArgs(call) ==
    \/ call.op = "move" /\ ~ValidPoint(call.a)
    \/ call.op = "click" /\
          (~ValidPoint(call.a) \/ ~ValidClicks(call.n) \/ ~ValidClickDuration(call.hold))

\* C6: move_to and click_on called with invalid arguments fail before any
\* event is emitted and leave the session context, the sink's configuration,
\* its position and its button as they were.
ValidationFrame ==
    [][ InvalidArgs(lastCall') =>
          /\ ~lastCall'.ok
          /\ log' = <<>>
          /\ ctx' = ctx
          /\ sinkCfg' = sinkCfg
          /\ sinkPos' = sinkPos
          /\ sinkDown' = sinkDown ]_vars

\* a rejected call in a session that had already moved and set the pacing
ValidationWitness ==
    /\ InvalidArgs(lastCall) /\ ~lastCall.ok
    /\ ctx.movement_count > 0
    /\ sinkCfg.PAUSE # Ms(0)

\* C7: drag_and_drop with a valid from_point and a to_point that is no pair
\* of numbers fails before any move or press is emitted.
DragValidatesTarget ==
    (lastCall.op = "drag" /\ ValidPoint(lastCall.a) /\ ~ValidPoint(lastCall.b)) =>
        (~lastCall.ok /\ log = <<>> /\ ~sinkDown)

\* C8: after cleanup the sink's MINIMUM_DURATION, MINIMUM_SLEEP and PAUSE are
\* what they were just before the instance was constructed.
ConfigRestored ==
    lastCall.op = "cleanup" => sinkCfg = preCfg

\* cleanup after completed moves and after a call that failed mid-way
ConfigWitness ==
    /\ lastCall.op = "cleanup"
    /\ ctx.movement_count > 0
    /\ sinkDown
    /\ preCfg.PAUSE # Ms(0)

(***************************************************************************)
(* Properties of the session context.                                      *)
(***************************************************************************)
\* the last n entries of q
LastN(q, n) == SubSeq(q, Len(q) - n + 1, Len(q))

\* C9: every completed move_to increases movement_count by exactly one,
\* whether its duration was given by the caller or derived.
MoveCounts ==
    [][ (lastCall'.op = "move" /\ lastCall'.ok) =>
          ctx'.movement_count = ctx.movement_count + 1 ]_vars

\* C10: after n duration computations movement_count is n and the ring
\* holds the last min(n, 5) target sizes in call order, never more than 5.
RingHoldsLastFive ==
    /\ ctx.movement_count = Len(hist)
    /\ Len(ctx.recent_targets) <= RingSize
    /\ ctx.recent_targets = LastN(hist, Min(Len(hist), RingSize))

\* more than five computations, the dropped size unlike those kept
RingWitness ==
    /\ Len(hist) > RingSize
    /\ ctx.recent_targets[1] # hist[1]
    /\ ctx.recent_targets[1] # ctx.recent_targets[RingSize]

\* the population variance of the sizes q, times Len(q)^2
VarianceTimesSquare(q) ==
    Len(q) * SumSeq([i \in 1..Len(q) |-> q[i] * q[i]]) - SumSeq(q) * SumSeq(q)

\* C11: the repetition factor of an automatically timed movement comes from
\* the context as it was before the movement is recorded: 1.0 for the first
\* three movements, then 0.85, 0.92 or 1.0 as the variance of the ring's
\* sizes is below 100, below 500, or neither.
RepetitionFromPrior ==
    (lastCall.op = "move" /\ lastCall.auto /\ lastCall.ok) =>
        LET prior == SubSeq(hist, 1, Len(hist) - 1)
            ring == LastN(prior, Min(Len(prior), RingSize))
            n == Len(ring)
        IN /\ Len(hist) >= 1
           /\ lastCall.factor =
                 IF Len(prior) < 3 THEN 100
                 ELSE IF VarianceTimesSquare(ring) < 100 * n * n THEN 85
                 ELSE IF VarianceTimesSquare(ring) < 500 * n * n THEN 92
                 ELSE 100

\* a fifth movement boosted by 8 %, the ring then holding unlike sizes
RepetitionWitness ==
    /\ lastCall.op = "move" /\ lastCall.auto /\ lastCall.ok
    /\ Len(hist) >= 5
    /\ lastCall.factor = 92

(***************************************************************************)
(* Properties of the web executor.                                         *)
(***************************************************************************)
RECURSIVE SumOffsets(_)
SumOffsets(q) ==
    IF q = <<>> THEN <<0, 0>>
    ELSE LET t == SumOffsets(Tail(q)) IN <<Head(q)[1] + t[1], Head(q)[2] + t[2]>>

\* C2: from an integer origin along fractional points to an integer
\* destination, the offsets emitted through move_by_offset sum, per axis,
\* to destination - origin, and so does the total returned.
WebSumExact ==
    webCall.made =>
        LET D == Last(webCall.points)
        IN /\ SumOffsets(webCall.emitted) = webCall.total
           /\ webCall.total[1] * Unit = D[1] - webCall.origin[1] * Unit
           /\ webCall.total[2] * Unit = D[2] - webCall.origin[2] * Unit

(***************************************************************************)
(* Properties of the parameter selector and of the trajectory builder.     *)
(***************************************************************************)
\* a trajectory was asked of a cursor, system or web, and the builder ran
BuiltByCursor == traj.made /\ traj.via \in {"system", "web"}

\* C12: with steady set, the constructor called by move_to, system or web,
\* works with offset boundaries (10, 10) and distortion parameters
\* (1.2, 1.2, 1), whatever the distance and whatever the selector had picked
\* and damped.
SteadyPreset ==
    (BuiltByCursor /\ traj.steady) =>
        /\ traj.out.used.offset_boundary_x = STEADY_OFFSET_BOUNDARY
        /\ traj.out.used.offset_boundary_y = STEADY_OFFSET_BOUNDARY
        /\ traj.out.used.distortion_mean = STEADY_DISTORTION_MEAN
        /\ traj.out.used.distortion_st_dev = STEADY_DISTORTION_STDEV
        /\ traj.out.used.distortion_frequency = STEADY_DISTORTION_FREQ

\* a steady web trajectory over 4000 pixels from the left edge, built although
\* the selector had damped its boundary pick of 100 to 30
SteadyWitness ==
    /\ BuiltByCursor /\ traj.steady /\ traj.via = "web" /\ traj.out.ok
    /\ Distance(traj.from_point, traj.to_point) = 4000
    /\ traj.r.bx = 100 /\ traj.params.offset_boundary_x = 30
    /\ traj.out.used.offset_boundary_x = STEADY_OFFSET_BOUNDARY

\* the sample is where the trajectory starts, or where it is to end
IsOrigin(point) ==
    \/ point = 0
    \/ point = traj.out.used.count - 1 /\ traj.from_point = traj.to_point
IsDestination(point) ==
    \/ point = traj.out.used.count - 1
    \/ point = 0 /\ traj.from_point = traj.to_point

\* C13: a trajectory returned for target_points >= 2 has at least two
\* points, the first of them the origin and the last of them the destination,
\* whether or not an overshoot point or pauses were added.
EndpointsKept ==
    (traj.made /\ traj.out.ok /\ traj.out.used.target_points >= 2) =>
        /\ Len(traj.out.points) >= 2
        /\ IsOrigin(traj.out.points[1])
        /\ IsDestination(traj.out.points[Len(traj.out.points)])

\* C14: with target_points as the selector returned it, the list that enters
\* pause injection, the tweened points with the overshoot point if one was
\* inserted, has at most 250 points.
EnteringWithinCap ==
    (BuiltByCursor /\ traj.out.ok) => traj.out.entering <= TargetPointsCap

\* q[k] is found at p[k + shift] for every k from i on, after leaving out
\* points of p wherever the two differ
RECURSIVE MatchFrom(_, _, _, _)
MatchFrom(q, p, i, shift) ==
    LET Differs(k) == k >= i /\ (k + shift > Len(p) \/ p[k + shift] # q[k])
        differing == SelectSeq([k \in 1..Len(q) |-> k], Differs)
    IN IF differing = <<>> THEN TRUE
       ELSE IF shift >= Len(p) - Len(q) THEN FALSE
       ELSE MatchFrom(q, p, Head(differing), shift + 1)

\* the points of q, in order, are among the points of p, in order
IsSubseq(q, p) == MatchFrom(q, p, 1, 0)

\* the tweened points of the trajectory built, before anything was added
TweenedOfBuilt ==
    tween_points(traj.out.used.count, traj.out.used.tween, traj.out.used.target_points)

\* C15: a returned trajectory has between target_points and
\* target_points + 8 + 1 points: every tweened point is still there, in
\* order, and what was added is at most one overshoot point and at most two
\* pauses of at most four copies each.
LengthBound ==
    (traj.made /\ traj.out.ok) =>
        /\ traj.out.used.target_points <= Len(traj.out.points)
        /\ Len(traj.out.points) <= traj.out.used.target_points + 8 + 1
        /\ traj.out.tweened = traj.out.used.target_points
        /\ traj.out.entering - traj.out.tweened \in {0, 1}
        /\ Len(traj.out.points) - traj.out.entering \in 0..8
        /\ IsSubseq(TweenedOfBuilt, traj.out.points)

\* the most that can be added: the overshoot point and two pauses of four
LengthWitness ==
    /\ traj.made /\ traj.out.ok
    /\ Len(traj.out.points) = traj.out.used.target_points + 8 + 1

\* the point is no further from an edge of the viewport than 5 % of its extent
WithinEdge(point, viewport) ==
    \/ 20 * Min(point[1], viewport[1] - point[1]) <= viewport[1]
    \/ 20 * Min(point[2], viewport[2] - point[2]) <= viewport[2]

\* the knots count the selector drew, before damping
PickedKnots ==
    LET options == KnotsOptions(Distance(traj.from_point, traj.to_point),
                                traj.r.threshold_1, traj.r.threshold_2)
    IN options[Min(traj.r.knot, Len(options))]

\* C16: with the origin or the destination within 5 % of a viewport edge the
\* selector returns knots_count <= ceil(0.5 k) and both offset boundaries
\* <= ceil(0.3 b), for k and b as drawn before damping.
EdgeDamping ==
    (BuiltByCursor /\ (WithinEdge(traj.from_point, traj.viewport)
                       \/ WithinEdge(traj.to_point, traj.viewport))) =>
        /\ traj.params.knots_count <= CeilDiv(PickedKnots, 2)
        /\ traj.params.offset_boundary_x <= CeilDiv(3 * traj.r.bx, 10)
        /\ traj.params.offset_boundary_y <= CeilDiv(3 * traj.r.by, 10)

(***************************************************************************)
(* Properties of BezierCalculator.                                         *)
(***************************************************************************)
\* row n of Pascal's triangle, each entry the sum of the two above it
RECURSIVE PascalRow(_)
PascalRow(n) ==
    IF n = 0 THEN <<1>>
    ELSE LET above == PascalRow(n - 1)
         IN <<1>> \o [i \in 1..(n - 1) |-> above[i] + above[i + 1]] \o <<1>>

PascalTriangle == [n \in 0..(MaxBinomialN + 1) |-> PascalRow(n)]

\* n choose k
Choose(n, k) == IF k > n THEN 0 ELSE PascalTriangle[n][k + 1]

\* C17: binomial(n, k) returns n choose k for 0 <= k <= n <= 20 and 0 for
\* k > n, whatever was called before: what is served from the cache is what
\* a computation from scratch returns, and every cached value is the
\* coefficient of its key.
BinomialCorrect ==
    binCall.made =>
        /\ binCall.value = Choose(binCall.n, binCall.k)
        /\ binCall.value = binCall.fresh
        /\ \A key \in DOMAIN binomial_cache : binomial_cache[key] = Choose(key[1], key[2])

\* 20 choose 13 served from the cache
BinomialWitness ==
    /\ binCall.made /\ binCall.hit
    /\ binCall.n = 20 /\ binCall.k = 13
    /\ binCall.value = 77520


(***************************************************************************)
(* C18  When the first perform() of the queued offsets fails with          *)
(* out-of-bounds: for an element target exactly one move_to_element is     *)
(* made and no error reaches the caller; for a position target the error   *)
(* reaches the caller and no move_to_element is made.                      *)
(***************************************************************************)
FallbackMoves == Len(SelectSeq(webCall.calls, LAMBDA c : c = "move_to_element"))

OutOfBoundsPolicy ==
    (webCall.made /\ webCall.performs[1] = "out_of_bounds") =>
        IF webCall.kind = "element"
        THEN FallbackMoves = 1 /\ webCall.ok
        ELSE FallbackMoves = 0 /\ ~webCall.ok

\* C18 as amended: the retry is one move_to_element followed by one perform(),
\* and the only error that reaches the caller for an element target is the
\* one that retry's own perform() raises
OutOfBoundsRetryOnce ==
    (webCall.made /\ webCall.performs[1] = "out_of_bounds") =>
        IF webCall.kind = "element"
        THEN /\ webCall.calls = <<"perform", "move_to_element", "perform">>
             /\ webCall.ok = (webCall.performs[2] = "ok")
        ELSE /\ webCall.calls = <<"perform">>
             /\ ~webCall.ok

OutOfBoundsWitness ==
    /\ webCall.made
    /\ webCall.performs = <<"out_of_bounds", "ok">>
    /\ webCall.kind = "element"
    /\ webCall.ok
    /\ FallbackMoves = 1
    /\ Len(webCall.emitted) > 1


(***************************************************************************)
(* C19  A trajectory with no points that reaches an executor is surfaced   *)
(* as an error and nothing is emitted to the sink: by the system executor  *)
(* (no moveTo logged) and by the web executor (no offset queued, no        *)
(* perform()).                                                             *)
(***************************************************************************)
SystemDegenerate ==
    (lastCall.op = "move" /\ lastCall.given /\ lastCall.curve = <<>>) =>
        ~lastCall.ok /\ log = <<>>

WebDegenerate ==
    (webCall.made /\ webCall.points = <<>>) =>
        ~webCall.ok /\ webCall.emitted = <<>> /\ webCall.calls = <<>>

DegenerateSurfaced == SystemDegenerate /\ WebDegenerate


(***************************************************************************)
(* C20  In manual recording, whenever no Ctrl press is pending, every item *)
(* of the recorded list is a move [x, y], a click (x, y) or a drag         *)
(* [(x, y), (x, y)], and the items stand in the order their actions were   *)
(* started: a Z press gave a move, a Ctrl press a click or a drag.         *)
(***************************************************************************)
AllOf(q, kind) == \A k \in 1..Len(q) : q[k].t = kind
IsMoveItem(item) == item.t = "list" /\ Len(item.v) = 2 /\ AllOf(item.v, "int")
IsClickItem(item) == item.t = "tuple" /\ Len(item.v) = 2 /\ AllOf(item.v, "int")
IsDragItem(item) == item.t = "list" /\ Len(item.v) = 2 /\ AllOf(item.v, "tuple")
NoPressPending == ~hcs.ctrl_pressed /\ threads = IdleThreads

RecordingWellFormed ==
    NoPressPending =>
        /\ Len(hcs.coordinates) = Len(started)
        /\ \A k \in 1..Len(started) :
             IF started[k] = "move" THEN IsMoveItem(hcs.coordinates[k])
             ELSE IsClickItem(hcs.coordinates[k]) \/ IsDragItem(hcs.coordinates[k])


(***************************************************************************)
(* C21  For every duration > 0 and intensity > 0, idle_jitter returns      *)
(* without error after emitting exactly floor(10 * duration)               *)
(* micro-movements, also for durations below a tenth of a second.          *)
(***************************************************************************)
JitterMoves == Len(SelectSeq(log, LAMBDA ev : ev.e = "move"))

JitterCompletes ==
    (/\ lastCall.op = "jitter"
     /\ lastCall.n.num /\ lastCall.n.v > 0
     /\ lastCall.hold.num /\ lastCall.hold.v > 0) =>
        /\ lastCall.ok
        /\ JitterMoves = (10 * lastCall.n.v) \div 1000


(***************************************************************************)
(* C22  The easing the parameter selector chose for a movement is the      *)
(* easing tween_points is called with for that movement, on the system     *)
(* path and on the web path.                                               *)
(***************************************************************************)
EasingApplied ==
    BuiltByCursor =>
        /\ traj.out.used.tween = traj.params.tween
        /\ traj.out.ok =>
             traj.out.tweened =
                 Len(tween_points(traj.out.used.count, traj.params.tween,
                                  traj.params.target_points))


(***************************************************************************)
(* C23  The target_size given to SystemCursor.move_to is the target_size   *)
(* in the overshoot probability of the trajectory built for that move:     *)
(* min(0.4, (min(d/1000, 1) + max(0, (50 - target_size)/50))/2).           *)
(***************************************************************************)
OvershootUsesTargetSize ==
    (traj.made /\ traj.via = "system") =>
        /\ traj.out.used.target_size = traj.target_size
        /\ traj.out.used.overshoot_prob =
               overshoot_prob(Distance(traj.from_point, traj.to_point), traj.target_size)


(***************************************************************************)
(* C24  For an origin and a destination inside the viewport and the        *)
(* parameters the selector or the steady preset gives, knot generation     *)
(* succeeds: the wobbled rectangle has left <= right and bottom <= top, no *)
(* error is raised, and exactly knots_count knots come back, each inside   *)
(* the wobbled rectangle.                                                  *)
(***************************************************************************)
InViewport(p, viewport) ==
    /\ 0 <= p[1] /\ p[1] <= viewport[1]
    /\ 0 <= p[2] /\ p[2] <= viewport[2]

KnotsSucceed ==
    (/\ BuiltByCursor
     /\ InViewport(traj.from_point, traj.viewport)
     /\ InViewport(traj.to_point, traj.viewport)) =>
        LET box == traj.out.used.box
            knots == traj.out.used.knots
        IN /\ traj.out.ok
           /\ box[1] <= box[2] /\ box[3] <= box[4]
           /\ Len(knots) = traj.params.knots_count
           /\ \A k \in 1..Len(knots) :
                /\ box[1] <= knots[k][1] /\ knots[k][1] <= box[2]
                /\ box[3] <= knots[k][2] /\ knots[k][2] <= box[4]


(***************************************************************************)
(* C25  Pause injection only inserts duplicates.  For a list of L >= 10    *)
(* points and d >= 300 the output is the input with, at each chosen index, *)
(* 2 to 4 copies of the input point of that index placed next to it; the   *)
(* chosen indices are distinct and lie in [L div 10, 8 L div 10); with two *)
(* pauses the second duplicates the input point at its own index.          *)
(***************************************************************************)
\* the points that enter add_pause_patterns in the trajectory built
EnteringOfBuilt ==
    add_overshoot_correction(TweenedOfBuilt, Distance(traj.from_point, traj.to_point),
                             traj.out.used.target_size, traj.g)

\* the indices chosen in a list of L points
ChosenIndices(L) ==
    [i \in 1..Len(traj.g.pauses) |->
       PauseIndex(traj.g.pauses[i][1], L \div 10, (L * 8) \div 10)]

\* the input with the copies put in from the last chosen index to the first,
\* so that every index still names the input point
RECURSIVE WithCopies(_, _, _)
WithCopies(points, chosen, lengths) ==
    IF chosen = <<>> THEN points
    ELSE LET idx == chosen[Len(chosen)]
             later == SubSeq(points, 1, idx)
                        \o [i \in 1..lengths[Len(chosen)] |-> points[idx + 1]]
                        \o SubSeq(points, idx + 1, Len(points))
         IN WithCopies(later, SubSeq(chosen, 1, Len(chosen) - 1), lengths)

PausesOnlyDuplicate ==
    (/\ traj.made /\ traj.out.ok
     /\ Distance(traj.from_point, traj.to_point) >= 300
     /\ Len(EnteringOfBuilt) >= 10) =>
        LET L == Len(EnteringOfBuilt)
            chosen == ChosenIndices(L)
            lengths == [i \in 1..Len(traj.g.pauses) |-> traj.g.pauses[i][2]]
        IN /\ \A i \in 1..Len(chosen) :
                /\ L \div 10 <= chosen[i] /\ chosen[i] < (L * 8) \div 10
                /\ lengths[i] \in 2..4
                /\ \A j \in 1..Len(chosen) : i < j => chosen[i] < chosen[j]
           /\ traj.out.points = WithCopies(EnteringOfBuilt, chosen, lengths)

\* two pauses, the second at a point that differs from the one the first
\* pause's copies have pushed to its index
PausesWitness ==
    /\ traj.made /\ traj.out.ok
    /\ Len(traj.g.pauses) = 2
    /\ Len(EnteringOfBuilt) >= 10
    /\ LET chosen == ChosenIndices(Len(EnteringOfBuilt))
       IN /\ chosen[2] - traj.g.pauses[1][2] >= chosen[1]
          /\ EnteringOfBuilt[chosen[2] + 1] # EnteringOfBuilt[chosen[2] + 1 - traj.g.pauses[1][2]]
          /\ Len(traj.out.points) = Len(EnteringOfBuilt) + traj.g.pauses[1][2] + traj.g.pauses[2][2]


(***************************************************************************)
(* C26  On every exit path of a drag, a normal return or an error raised   *)
(* after the press, the pressed button has been released: no drag_and_drop *)
(* ends with the button still held.                                        *)
(***************************************************************************)
DragReleases ==
    lastCall.op = "drag" => ~sinkDown

\* ---------------------------------------------------------------------
\* C27: after every WebCursor.move_to call the tracked origins
\* (WebCursor.origin_coordinates and WebAdjuster.origin_coordinate) are where
\* the sink actions left the pointer: the origin the call started from plus
\* the emitted offsets when the queued chain performed, the element the direct
\* fallback moved to after an out-of-bounds fallback, and both unchanged when
\* the call ends in an error; the list a caller hands in as origin is never
\* modified.
FellBack(call) == Len(call.calls) = 3

TrackedAfter(call, adjuster, cursor, adjuster_next, cursor_next) ==
    /\ call.ok /\ ~FellBack(call) =>
          /\ adjuster_next = <<call.origin[1] + SumOffsets(call.emitted)[1],
                               call.origin[2] + SumOffsets(call.emitted)[2]>>
          /\ cursor_next = adjuster_next
    /\ call.ok /\ FellBack(call) =>
          /\ adjuster_next = call.centre
          /\ cursor_next = call.centre
    /\ ~call.ok => adjuster_next = adjuster /\ cursor_next = cursor
    /\ call.after = call.given

TrackedOriginFollowsSink ==
    [][webCall'.via = "cursor" =>
          TrackedAfter(webCall', origin_coordinate, origin_coordinates,
                       origin_coordinate', origin_coordinates')]_vars

\* ---------------------------------------------------------------------
\* C28: at most one playback worker drives the cursor at any time: whatever
\* the interleaving of start_playback, stop_playback and worker steps, there
\* are never two workers in the middle of an action.
Driving(w) == workers[w].pc = "mid"

OneWorkerDrives == Cardinality({w \in 1..Len(workers) : Driving(w)}) <= 1

\* ---------------------------------------------------------------------
\* C29: once stop_playback has been invoked and playback is not started
\* again, a worker takes up no further recorded action (it takes one up only
\* with playback_running set) and every worker terminates, whatever the
\* repetition count, the infinite setting included; the action in progress
\* runs to its end.
AllWorkersDone == \A w \in 1..Len(workers) : workers[w].pc = "done"

TakesUpAction(w) == workers[w].pc = "item" /\ workers'[w].pc = "act"

PlaybackRestoresConfig ==
    (Len(workers) > 0 /\ AllWorkersDone) => sinkCfg = preCfg

=============================================================================
